---- MODULE Spec2Model ----
(***************************************************************************)
(* A model of the sugar-run basketball tracker backend: clip extraction,   *)
(* the stats scoring engine, the evaluation harness, the classifiers'      *)
(* classify entry point and the classifier factories.                      *)
(*                                                                         *)
(* Each component has its own specification (SpecExtract, SpecStats, ...)  *)
(* over the shared variables; the variables of the components a            *)
(* specification does not exercise stay at their idle values.              *)
(*                                                                         *)
(* Conventions.  Text is a sequence of one-character strings, so that      *)
(* lower(), upper(), `in` and join() are computed and not assumed.         *)
(* Confidences are integers in hundredths (0.45 is 45).  Times in the      *)
(* evaluation harness are integers in tenths of a second.                  *)
(***************************************************************************)
EXTENDS Integers, Sequences, FiniteSets, TLC

VARIABLES
    \* ---- video_extraction_service.extract_clips
    ex_pc,            \* "idle" | "loop" | "done"
    fps,              \* cap.get(CAP_PROP_FPS), an integer frame rate
    clip_duration,    \* config.CLIP_DURATION in halves of a second
    clip_overlap,     \* config.CLIP_OVERLAP as a numerator over 2^OverlapBits
    max_clips,        \* config.MAX_CLIPS
    total_frames,     \* the number of frames the source delivers
    frames_per_clip,
    stride,
    clips,            \* sequence of [start, frames]
    frames_buffer,    \* sequence of frame indices
    frame_count,
    \* ---- stats_calculation_service.calculate_stats
    st_pc,            \* "idle" | "ready" | "done"
    detections,       \* sequence of [action, confidence] (+ classified_as once scored)
    basketball_actions, \* the classifier's action-keyword mapping
    stats,            \* the stats dict returned by calculate_stats
    st_calls,         \* calls of calculate_stats made on this detection list
    st_first,         \* what the first of them returned
    \* ---- results_evaluation_service: evaluate_detections, calculate_score
    ev_pc,            \* "idle" | "loaded" | "evaluated" | "scored"
    ground_truth,     \* [expected_detections, expected_stats]
    session_results,  \* [detections, stats] of the stored session
    result,           \* the EvaluationResult
    matched_indices,  \* evaluate_detections' set of matched detection indices
    score,            \* the dict returned by calculate_score
    \* ---- classifiers: initialize, is_ready, classify of one classifier instance
    cl_pc,            \* "idle" | "constructed" | "detect" | "sample" | "infer"
                      \* | "returned" | "raised"
    cl_kind,          \* "yolo" | "videomae"
    cl_ready,         \* self._ready
    cl_model,         \* self.model is not None (and the processor, for VideoMAE)
    cl_frames,        \* len(frames) of the clip passed to classify
    cl_positions,     \* positions, as _detect_ball_positions builds it
    cl_failed,        \* an internal step of this classify call has raised
    cl_result,        \* the ClassificationResult returned: [action, confidence]
    cl_init,          \* the last initialize() call: whether the classifier was
                      \* ready when called, whether it loaded, what it returned
    \* ---- the classifier factories: ClassifierFactory.create, get_classifier
    fa_impl,          \* "registry" (classifiers/base.py) | "service"
                      \* (video_analysis_service.py) | "legacy" (analyze.py)
    fa_concurrent,    \* requests may overlap (a threaded server) or run one by one
    fa_pc,            \* per request: "idle" | "check" | "construct" | "store"
                      \* | "initialize" | "load" | "return"
    fa_arg,           \* per request: classifier_type
    fa_instance,      \* per request: the instance it has constructed
    fa_target,        \* per request: the instance whose initialize() it is in
    fa_outcome,       \* per request: how its last create ended, and with what
    fa_instances,     \* the cache: _instances / _yolo, _videomae, ...
    fa_registry,      \* ClassifierRegistry._registry: the registered identifiers
    fa_default,       \* base.ClassifierFactory._default
    fa_cleared,       \* clear_cache() has been called
    fa_fresh,         \* number of classifier objects constructed so far
    fa_ready,         \* the instances whose last initialize() succeeded
    fa_calls,         \* number of create calls made so far
    fa_constructed,   \* per identifier: constructor invocations
    fa_initialized,   \* per identifier: initialize() invocations
    fa_init_failed,   \* per identifier: initialize() invocations that failed
    fa_stored,        \* per identifier: the instances ever put in the cache
    fa_returned,      \* per requested identifier: the instances create returned
    \* ---- utils/storage.py: SessionStorage over the file sessions.jsonl
    sessions_file,    \* SESSIONS_FILE: [exists, bytes]
    ss_concurrent,    \* the callers' calls may overlap, or come one by one
    ss_pc,            \* per caller: "idle" | "append" (create has opened the file)
                      \* | "get_open" | "get_read" (get has found the file, has
                      \* opened it) | "update_open" | "update_read" (update has
                      \* found the file, has opened it to read) | "rewrite"
                      \* (update has read the file to its end) | "write" (update
                      \* has opened the file with 'w')
    ss_sessions,      \* per caller: update's local list `sessions`
    ss_got,           \* the last get that returned or raised
    ss_args,          \* per caller: the arguments of its call, its file object
                      \* and what is kept of the call for ss_got and ss_rewrite
    ss_rewrite,       \* the last update that returned or raised
    ss_created,       \* every record ever passed to create, in call order
    ss_ops,           \* number of calls started so far
    \* ---- video_analysis_service.analyze_video, one run after the other
    clock,            \* the wall clock, in ticks of 1/TicksPerSecond second
    pl_pc,            \* "idle" | "create" | "ready" | "extract" | "session"
                      \* | "mapping" | "classify" | "stats" | "save" | "returned"
                      \* | "raised"
    pl_classifier_type, \* the classifier_type argument of the run
    pl_create_no,     \* fa_calls when the run started
    pl_session_id,    \* session_id of the run
    pl_mapping,       \* basketball_actions of the run
    pl_i,             \* number of clips the loop has gone through
    pl_results,       \* the ClassificationResult of each clip classified so far
    pl_detected,      \* detected_actions
    pl_error,         \* the exception that ended the run, "" if none
    pl_runs,          \* number of runs started so far
    pl_attribute,     \* the attribute an AttributeError names, "" if none
    pl_built,         \* the session_data dicts the runs have built, in order
    \* ---- results_evaluation_service.run_evaluation
    gt_file,          \* /app/services/expected_results.json: [exists, video_name]
    re_pc,            \* "idle" | "load" (the ground truth is loaded) | "save"
                      \* (evaluate_session has returned) | "done"
    re_evaluation,    \* what evaluate_session returned: the ground truth, the
                      \* session's id and the score
    re_args,          \* [video_name, session_id] of the last call
    re_outcome,       \* the dict run_evaluation returned
    re_before,        \* the sessions file when the last call started
    re_wrote          \* run_evaluation has opened the sessions file with 'w'

ex_vars == <<ex_pc, fps, clip_duration, clip_overlap, max_clips, total_frames,
             frames_per_clip, stride, clips, frames_buffer, frame_count>>

st_vars == <<st_pc, detections, basketball_actions, stats, st_calls, st_first>>

ev_vars == <<ev_pc, ground_truth, session_results, result, matched_indices, score>>

cl_vars == <<cl_pc, cl_kind, cl_ready, cl_model, cl_frames, cl_positions, cl_failed,
             cl_result, cl_init>>

fa_vars == <<fa_impl, fa_concurrent, fa_pc, fa_arg, fa_instance, fa_target, fa_outcome,
             fa_instances, fa_registry, fa_default, fa_cleared, fa_fresh, fa_ready, fa_calls, fa_constructed,
             fa_initialized, fa_init_failed, fa_stored, fa_returned>>

\* the store's callers and what is kept of their calls
ss_book == <<ss_concurrent, ss_pc, ss_sessions, ss_args, ss_got, ss_rewrite, ss_created,
             ss_ops>>

ss_vars == <<sessions_file, ss_book>>

pl_vars == <<clock, pl_pc, pl_classifier_type, pl_create_no, pl_session_id,
             pl_mapping, pl_i, pl_results, pl_detected, pl_error, pl_runs,
             pl_attribute, pl_built>>

re_vars == <<gt_file, re_pc, re_evaluation, re_args, re_outcome, re_before,
             re_wrote>>

vars == <<ex_vars, st_vars, ev_vars, cl_vars, fa_vars, ss_vars, pl_vars, re_vars>>

\* what each component leaves alone
ex_others == <<st_vars, ev_vars, cl_vars, fa_vars, ss_vars, pl_vars, re_vars>>
st_others == <<ex_vars, ev_vars, cl_vars, fa_vars, ss_vars, pl_vars, re_vars>>
ev_others == <<ex_vars, st_vars, cl_vars, fa_vars, ss_vars, pl_vars, re_vars>>
cl_others == <<ex_vars, st_vars, ev_vars, fa_vars, ss_vars, pl_vars, re_vars>>
fa_others == <<ex_vars, st_vars, ev_vars, cl_vars, ss_vars, pl_vars, re_vars>>
ss_others == <<ex_vars, st_vars, ev_vars, cl_vars, fa_vars, pl_vars, re_vars>>
\* a pipeline run drives the factory and the extractor
pl_others == <<st_vars, ev_vars, cl_vars, ss_vars, re_vars>>
\* run_evaluation reads and updates the store
re_others == <<ex_vars, st_vars, ev_vars, cl_vars, fa_vars, pl_vars>>

----------------------------------------------------------------------------
(* Bounds of the model *)

MaxFrames == 8
MaxFps == 2
MaxDurationHalves == 4
OverlapBits == 2
MaxClipsBound == 3
MaxDetections == 2
MaxScoringCalls == 2       \* calls of calculate_stats on one detection list
MaxExpected == 2
MaxSessionDetections == 2
MaxClipFrames == 6         \* frames in the clip given to classify
MaxCreateCalls == 3        \* calls of ClassifierFactory.create in one behaviour
MaxStorageOps == 3         \* calls of the session store in one behaviour
MaxOverlap == 1            \* calls of other requests during one run_evaluation
MaxEvaluated == 1          \* expected events, and detections of the session, of
                           \* one run_evaluation
MaxRuns == 2               \* runs of analyze_video in one behaviour
MaxPipelineFrames == 3     \* frames of a video given to analyze_video
TicksPerSecond == 2        \* clock ticks in a second
MaxClock == 2              \* the last clock tick

----------------------------------------------------------------------------
(* Arithmetic helpers *)

Min(a, b) == IF a <= b THEN a ELSE b
Max(a, b) == IF a >= b THEN a ELSE b
Abs(a) == IF a >= 0 THEN a ELSE -a

RECURSIVE Pow2(_)
Pow2(n) == IF n = 0 THEN 1 ELSE 2 * Pow2(n - 1)

----------------------------------------------------------------------------
(* Text: Python str operations on sequences of characters *)

UpperChars == <<"A","B","C","D","E","F","G","H","I","J","K","L","M","N","O","P","Q","R","S","T","U","V","W","X","Y","Z">>
LowerChars == <<"a","b","c","d","e","f","g","h","i","j","k","l","m","n","o","p","q","r","s","t","u","v","w","x","y","z">>

CharIndex(chars, c) == CHOOSE i \in 1..Len(chars) : chars[i] = c
IsIn(chars, c) == \E i \in 1..Len(chars) : chars[i] = c

\* str.lower() and str.upper(), a character at a time
LowerChar(c) == IF IsIn(UpperChars, c) THEN LowerChars[CharIndex(UpperChars, c)] ELSE c
UpperChar(c) == IF IsIn(LowerChars, c) THEN UpperChars[CharIndex(LowerChars, c)] ELSE c
Lower(s) == [i \in 1..Len(s) |-> LowerChar(s[i])]
Upper(s) == [i \in 1..Len(s) |-> UpperChar(s[i])]

\* sub in s
Contains(sub, s) ==
    \E i \in 0..(Len(s) - Len(sub)) : SubSeq(s, i + 1, i + Len(sub)) = sub

\* sep.join(parts)
RECURSIVE Join(_, _)
Join(sep, parts) ==
    IF parts = <<>> THEN <<>>
    ELSE IF Len(parts) = 1 THEN parts[1]
    ELSE parts[1] \o sep \o Join(sep, Tail(parts))

\* all sequences over S of length at most n
SeqsUpTo(S, n) == UNION {[1..k -> S] : k \in 0..n}


----------------------------------------------------------------------------
(* Clip extraction: services/video_extraction_service.py *)

\* int(fps * config.CLIP_DURATION), the duration being given in halves of a second
FramesPerClip(f, dur) == (f * dur) \div 2

\* int(frames_per_clip * (1 - config.CLIP_OVERLAP)), the overlap being ov / 2^OverlapBits
Stride(fpc, ov) == (fpc * (Pow2(OverlapBits) - ov)) \div Pow2(OverlapBits)

\* a slice that always drops a frame, even for a stride of 0
SliceFromAtLeastOne(s, n) ==
    IF n >= Len(s) \/ Len(s) <= 1 THEN <<>> ELSE SubSeq(s, Max(n, 1) + 1, Len(s))

\* a slice that drops one frame too many
SliceFromOffByOne(s, n) == IF n + 1 >= Len(s) THEN <<>> ELSE SubSeq(s, n + 2, Len(s))

\* frames_buffer[stride:]
SliceFrom(s, n) == IF n >= Len(s) THEN <<>> ELSE SubSeq(s, n + 1, Len(s))

ExtractIdle ==
    /\ ex_pc = "idle"
    /\ fps = 0 /\ clip_duration = 0 /\ clip_overlap = 0 /\ max_clips = 0
    /\ total_frames = 0 /\ frames_per_clip = 0 /\ stride = 0
    /\ clips = <<>> /\ frames_buffer = <<>> /\ frame_count = 0

\* The state of extract_clips on entry to its loop (lines 11-24), for a source of
\* n frames at rate f and a configuration (dur, ov, m).
ExtractStart(n, f, dur, ov, m) ==
    /\ ex_pc = "loop"
    /\ fps = f /\ clip_duration = dur /\ clip_overlap = ov /\ max_clips = m
    /\ total_frames = n
    /\ frames_per_clip = FramesPerClip(f, dur)
    /\ stride = Stride(FramesPerClip(f, dur), ov)
    /\ clips = <<>> /\ frames_buffer = <<>> /\ frame_count = 0

InputsExtract ==
    \/ \E n \in 0..MaxFrames, f \in 0..MaxFps, dur \in 1..MaxDurationHalves,
          ov \in 0..(Pow2(OverlapBits) - 1), m \in 0..MaxClipsBound :
          ExtractStart(n, f, dur, ov, m)
    \* the windowing example: 200 frames at 30 fps under the default configuration
    \* (CLIP_DURATION 2.0, CLIP_OVERLAP 0.5, MAX_CLIPS 30)
    \/ ExtractStart(200, 30, 4, Pow2(OverlapBits - 1), 30)

\* frames_buffer after one pass of lines 32-37 with the buffer already appended:
\* the emitted clip and the retained seed
EmitClip(buf, cnt) == [start |-> cnt - frames_per_clip, frames |-> buf]

\* One iteration of the while loop with cap.read() returning a frame (lines 26-40).
\* Frame i of the source is represented by its index i.
ReadFrame ==
    /\ ex_pc = "loop"
    /\ Len(clips) < max_clips
    /\ frame_count < total_frames
    /\ LET buf == Append(frames_buffer, frame_count)
           cnt == frame_count + 1
       IN  /\ frame_count' = cnt
           /\ IF Len(buf) = frames_per_clip
              THEN /\ clips' = Append(clips, EmitClip(buf, cnt))
                   /\ frames_buffer' = SliceFrom(buf, stride)
              ELSE /\ clips' = clips
                   /\ frames_buffer' = buf
    /\ UNCHANGED <<ex_pc, fps, clip_duration, clip_overlap, max_clips, total_frames,
                   frames_per_clip, stride>>
    /\ UNCHANGED ex_others

\* an end of source that emits the frames left in the buffer as a short last clip
EndOfSourceFlushesPartial ==
    /\ ex_pc = "loop"
    /\ Len(clips) < max_clips
    /\ frame_count = total_frames
    /\ ex_pc' = "done"
    /\ clips' = IF frames_buffer = <<>> THEN clips
                ELSE Append(clips, [start |-> frame_count - Len(frames_buffer),
                                    frames |-> frames_buffer])
    /\ UNCHANGED <<fps, clip_duration, clip_overlap, max_clips, total_frames,
                   frames_per_clip, stride, frames_buffer, frame_count>>
    /\ UNCHANGED ex_others

\* cap.read() returns ret = False: break (lines 27-29), then release and return
EndOfSource ==
    /\ ex_pc = "loop"
    /\ Len(clips) < max_clips
    /\ frame_count = total_frames
    /\ ex_pc' = "done"
    /\ UNCHANGED <<fps, clip_duration, clip_overlap, max_clips, total_frames,
                   frames_per_clip, stride, clips, frames_buffer, frame_count>>
    /\ UNCHANGED ex_others

\* the loop condition len(clips) < MAX_CLIPS fails (line 26), then release and return
ClipLimitReached ==
    /\ ex_pc = "loop"
    /\ Len(clips) >= max_clips
    /\ ex_pc' = "done"
    /\ UNCHANGED <<fps, clip_duration, clip_overlap, max_clips, total_frames,
                   frames_per_clip, stride, clips, frames_buffer, frame_count>>
    /\ UNCHANGED ex_others

----------------------------------------------------------------------------
(* Stats scoring engine: services/stats_calculation_service.py *)

\* config.py, in hundredths
CONFIDENCE_THRESHOLD_SHOT == 50
CONFIDENCE_THRESHOLD_ASSIST == 40
CONFIDENCE_THRESHOLD_BLOCK == 45
CONFIDENCE_THRESHOLD_DETECTION == 30

DEFAULT_ACTION_KEYWORDS ==
    [ shooting |->
          << <<"s","h","o","o","t","i","n","g">>
           , <<"t","h","r","o","w">>
           , <<"t","o","s","s">>
          >>
    , passing |->
          << <<"p","a","s","s","i","n","g">>
           , <<"h","a","n","d">>
           , <<"t","h","r","o","w">>
          >>
    , dribbling |->
          << <<"d","r","i","b","b","l","i","n","g">>
           , <<"b","o","u","n","c","e">>
          >>
    , dunking |->
          << <<"d","u","n","k">>
           , <<"s","l","a","m">>
          >>
    , blocking |->
          << <<"b","l","o","c","k">>
           , <<"d","e","f","e","n","d">>
          >>
    , catching |->
          << <<"c","a","t","c","h">>
           , <<"g","r","a","b">>
          >>
    ]

\* YOLOBallTrackingClassifier.get_basketball_stats_mapping
get_basketball_stats_mapping ==
    [ shooting |->
          << <<"s","h","o","o","t","i","n","g"," ","b","a","s","k","e","t","b","a","l","l">>
           , <<"t","h","r","o","w">>
           , <<"s","h","o","t">>
          >>
    , passing |->
          << <<"p","a","s","s","i","n","g"," ","b","a","s","k","e","t","b","a","l","l">>
           , <<"p","a","s","s">>
          >>
    , dribbling |->
          << <<"d","r","i","b","b","l","i","n","g"," ","b","a","s","k","e","t","b","a","l","l">>
           , <<"d","r","i","b","b","l","e">>
          >>
    , dunking |->
          << <<"d","u","n","k">>
           , <<"s","l","a","m">>
          >>
    , blocking |->
          << <<"b","l","o","c","k">>
           , <<"d","e","f","e","n","d">>
          >>
    , catching |->
          << <<"c","a","t","c","h","i","n","g"," ","b","a","s","k","e","t","b","a","l","l">>
           , <<"c","a","t","c","h">>
          >>
    ]

LabelShot == <<"S","H","O","T"," ","(","+","2"," ","p","o","i","n","t","s",")">>
LabelAssist == <<"A","S","S","I","S","T"," ","(","+","1",")">>
LabelBlock == <<"B","L","O","C","K"," ","(","+","1",")">>
IgnoredDisposition ==
    <<"I","G","N","O","R","E","D"," ","(","b","e","l","o","w"," ","t","h","r","e","s","h","o","l","d"," ","o","r"," ","n","o"," ","m","a","t","c","h",")">>
JoinSeparator == <<",", " ">>

\* SCORING_RULES; keyword_getter is given by the categories whose keyword lists it
\* concatenates
SCORING_RULES ==
    << [stat_name |-> "points", points_value |-> 2, label |-> LabelShot,
        confidence_threshold |-> CONFIDENCE_THRESHOLD_SHOT,
        keyword_getter |-> <<"shooting", "dunking">>],
       [stat_name |-> "assists", points_value |-> 1, label |-> LabelAssist,
        confidence_threshold |-> CONFIDENCE_THRESHOLD_ASSIST,
        keyword_getter |-> <<"passing">>],
       [stat_name |-> "blocks", points_value |-> 1, label |-> LabelBlock,
        confidence_threshold |-> CONFIDENCE_THRESHOLD_BLOCK,
        keyword_getter |-> <<"blocking">>] >>

\* rule.keyword_getter(basketball_actions)
RECURSIVE ConcatKeywords(_, _)
ConcatKeywords(categories, ba) ==
    IF categories = <<>> THEN <<>>
    ELSE ba[Head(categories)] \o ConcatKeywords(Tail(categories), ba)

keyword_getter(rule, ba) == ConcatKeywords(rule.keyword_getter, ba)

\* ScoringRule.matches
matches(rule, action_lower, ba) ==
    LET keywords == keyword_getter(rule, ba)
    IN  \E k \in 1..Len(keywords) : Contains(keywords[k], action_lower)

\* an apply that adds the rule's value twice
apply_twice(rule, acc) ==
    [stats |-> [acc.stats EXCEPT ![rule.stat_name] = @ + 2 * rule.points_value],
     classified_as |-> Append(acc.classified_as, rule.label)]

\* ScoringRule.apply on the pair (stats, classified_as)
apply(rule, acc) ==
    [stats |-> [acc.stats EXCEPT ![rule.stat_name] = @ + rule.points_value],
     classified_as |-> Append(acc.classified_as, rule.label)]

\* a threshold test that lets a confidence equal to the threshold through
ExceedsThresholdOrEqual(confidence, threshold) == confidence >= threshold

\* confidence > rule.confidence_threshold
ExceedsThreshold(confidence, threshold) == confidence > threshold

\* _build_initial_stats
build_initial_stats ==
    [name \in {SCORING_RULES[r].stat_name : r \in 1..Len(SCORING_RULES)} |-> 0]

\* the inner loop of calculate_stats over SCORING_RULES[r..], for one detection
RECURSIVE ApplyRules(_, _, _, _, _)
ApplyRules(r, action_lower, confidence, ba, acc) ==
    IF r > Len(SCORING_RULES) THEN acc
    ELSE LET rule == SCORING_RULES[r]
             fired == /\ matches(rule, action_lower, ba)
                      /\ ExceedsThreshold(confidence, rule.confidence_threshold)
         IN  ApplyRules(r + 1, action_lower, confidence, ba,
                        IF fired THEN apply(rule, acc) ELSE acc)

\* a disposition that keeps the first label only
DispositionFirstLabel(classified_as) ==
    IF classified_as # <<>> THEN classified_as[1] ELSE IgnoredDisposition

\* detection['classified_as'] for the labels collected
Disposition(classified_as) ==
    IF classified_as # <<>> THEN Join(JoinSeparator, classified_as)
    ELSE IgnoredDisposition

\* the outer loop of calculate_stats over detections[i..]
RECURSIVE ScoreDetections(_, _, _, _)
ScoreDetections(i, dets, ba, st) ==
    IF i > Len(dets) THEN [stats |-> st, detections |-> dets]
    ELSE LET d == dets[i]
             acc == ApplyRules(1, Lower(d.action), d.confidence, ba,
                               [stats |-> st, classified_as |-> <<>>])
             \* detection['classified_as'] = ..., the other keys kept
             scored == [k \in DOMAIN d \cup {"classified_as"} |->
                           IF k = "classified_as" THEN Disposition(acc.classified_as)
                           ELSE d[k]]
         IN  ScoreDetections(i + 1, [dets EXCEPT ![i] = scored], ba, acc.stats)

\* a scoring that goes on from the stats of the call before
calculate_stats_carrying(dets, ba) == ScoreDetections(1, dets, ba, stats)

\* calculate_stats(detections, basketball_actions)
calculate_stats(dets, ba) == ScoreDetections(1, dets, ba, build_initial_stats)

\* labels a classifier may return, and confidences around the rule thresholds
ActionLabels ==
    { <<"s","h","o","o","t","i","n","g"," ","b","a","s","k","e","t","b","a","l","l">>
    , <<"T","h","r","o","w","i","n","g"," ","B","a","l","l">>
    , <<"p","a","s","s","i","n","g"," ","b","a","s","k","e","t","b","a","l","l">>
    , <<"a"," ","p","e","r","s","o","n"," ","b","l","o","c","k","i","n","g"," ","a"," ","b","a","s","k","e","t","b","a","l","l"," ","s","h","o","t">>
    , <<"p","l","a","y","i","n","g"," ","b","a","s","k","e","t","b","a","l","l">> }

Confidences ==
    { CONFIDENCE_THRESHOLD_ASSIST, CONFIDENCE_THRESHOLD_BLOCK,
      CONFIDENCE_THRESHOLD_BLOCK + 1, CONFIDENCE_THRESHOLD_SHOT,
      CONFIDENCE_THRESHOLD_SHOT + 1 }

KeywordMappings == {DEFAULT_ACTION_KEYWORDS, get_basketball_stats_mapping}

\* no call of calculate_stats yet
NoStats == [stats |-> build_initial_stats, detections |-> <<>>]

StatsIdle ==
    /\ st_pc = "idle"
    /\ detections = <<>>
    /\ basketball_actions = DEFAULT_ACTION_KEYWORDS
    /\ stats = build_initial_stats
    /\ st_calls = 0
    /\ st_first = NoStats

InputsStats ==
    /\ st_pc = "ready"
    /\ detections \in SeqsUpTo([action : ActionLabels, confidence : Confidences],
                               MaxDetections)
    /\ basketball_actions \in KeywordMappings
    /\ stats = build_initial_stats
    /\ st_calls = 0
    /\ st_first = NoStats


\* stats, detected_actions = calculate_stats(detected_actions, basketball_actions);
\* the list is scored in place, so a later call gets the detections with the
\* classified_as of the call before
CalculateStats ==
    /\ st_pc \in {"ready", "done"}
    /\ st_calls < MaxScoringCalls
    /\ LET out == calculate_stats(detections, basketball_actions)
       IN  /\ stats' = out.stats
           /\ detections' = out.detections
           /\ st_first' = IF st_calls = 0 THEN out ELSE st_first
    /\ st_calls' = st_calls + 1
    /\ st_pc' = "done"
    /\ UNCHANGED basketball_actions
    /\ UNCHANGED st_others


----------------------------------------------------------------------------
(* Python floats: IEEE 754 binary64 arithmetic, round to nearest, ties to  *)
(* even.  A natural number of any size is a sequence of limbs in base      *)
(* 2^14, least significant first, without a leading zero limb.  A float is *)
(* [neg, man, exp] with value (-1)^neg * man * 2^exp, where man is 0 or    *)
(* has exactly 53 bits; zero has no sign, and the values the program       *)
(* computes stay far from overflow and from the subnormal range.  Every    *)
(* operator looks at its operands before anything else, which keeps the    *)
(* evaluation of a chain of operations shallow.                            *)

\* the mantissa of a Python float, and the size of the limbs
Binary64 == [mantissa_bits |-> 53, limb_bits |-> 14]
LimbBits == Binary64.limb_bits
LimbBase == 2 ^ LimbBits
MantissaBits == Binary64.mantissa_bits
PowersOfTwo ==
    <<1, 2, 4, 8, 16, 32, 64, 128, 256, 512, 1024, 2048, 4096, 8192, 16384>>

Limb(a, i) == IF 1 <= i /\ i <= Len(a) THEN a[i] ELSE 0

\* a without its leading zero limbs
BigNorm(a) ==
    IF a = <<>> \/ a[Len(a)] # 0 THEN a
    ELSE LET nz == {i \in 1..Len(a) : a[i] # 0}
         IN  IF nz = {} THEN <<>>
             ELSE SubSeq(a, 1, CHOOSE i \in nz : \A j \in nz : j <= i)

\* 0 <= n < 2^31
BigOfInt(n) ==
    BigNorm(<<n % LimbBase, (n \div LimbBase) % LimbBase,
              n \div (LimbBase * LimbBase)>>)

\* a < 2^31
BigToInt(a) == Limb(a, 1) + LimbBase * (Limb(a, 2) + LimbBase * Limb(a, 3))

\* the limbs of a number given by digits below 2 * 2^14 - 1: a digit takes
\* a carry when a digit below it overflows and every digit between them
\* passes the carry on
BigRipple(u) ==
    IF u = <<>> THEN <<>> ELSE
    LET n == Len(u)
        carry(i) == \E j \in 1..(i - 1) :
                        /\ u[j] >= LimbBase
                        /\ \A k \in (j + 1)..(i - 1) : u[k] >= LimbBase - 1
    IN  BigNorm(SubSeq([i \in 1..(n + 1) |->
                           (Limb(u, i) + (IF carry(i) THEN 1 ELSE 0)) % LimbBase],
                       1, n + 1))

\* every digit keeps its low 14 bits and hands the rest to the next one
BigSpread(w) ==
    IF w = <<>> THEN <<>> ELSE
    SubSeq([i \in 1..(Len(w) + 1) |->
               (Limb(w, i) % LimbBase) + (Limb(w, i - 1) \div LimbBase)],
           1, Len(w) + 1)

\* the limbs of a number given by digits below 2^30
BigCarry(w) == BigRipple(BigSpread(BigSpread(w)))

BigAdd(a, b) ==
    IF a = <<>> THEN b ELSE IF b = <<>> THEN a ELSE
    LET n == IF Len(a) >= Len(b) THEN Len(a) ELSE Len(b)
    IN  BigRipple(SubSeq([i \in 1..n |-> Limb(a, i) + Limb(b, i)], 1, n))

\* a - b for a >= b
BigSub(a, b) ==
    IF b = <<>> \/ a = <<>> THEN a ELSE
    LET n == Len(a)
        d == SubSeq([i \in 1..n |-> a[i] - Limb(b, i)], 1, n)
        borrow(i) == \E j \in 1..(i - 1) :
                         d[j] < 0 /\ \A k \in (j + 1)..(i - 1) : d[k] <= 0
    IN  BigNorm(SubSeq([i \in 1..n |->
                           (d[i] - (IF borrow(i) THEN 1 ELSE 0)) % LimbBase],
                       1, n))

\* -1, 0 or 1 as a < b, a = b or a > b
BigCmp(a, b) ==
    IF Len(a) # Len(b) THEN (IF Len(a) > Len(b) THEN 1 ELSE -1)
    ELSE LET df == {i \in 1..Len(a) : a[i] # b[i]}
         IN  IF df = {} THEN 0
             ELSE LET t == CHOOSE i \in df : \A j \in df : j <= i
                  IN  IF a[t] > b[t] THEN 1 ELSE -1

\* a * k for 0 <= k < 2^16
BigMulSmall(a, k) ==
    IF a = <<>> \/ k = 0 THEN <<>>
    ELSE BigCarry(SubSeq([i \in 1..Len(a) |-> a[i] * k], 1, Len(a)))

\* a * 2^(14 n)
BigShiftLimbs(a, n) == IF a = <<>> THEN <<>> ELSE [i \in 1..n |-> 0] \o a

\* a * b for a of at most four limbs
BigMul(a, b) ==
    IF a = <<>> \/ b = <<>> THEN <<>>
    ELSE LET n == Len(a) + Len(b) - 1
             term(i, k) == Limb(a, i) * Limb(b, k + 1 - i)
         IN  BigCarry(SubSeq([k \in 1..n |->
                                 term(1, k) + term(2, k) + term(3, k) + term(4, k)],
                             1, n))

\* a * 2^n
BigShl(a, n) ==
    IF a = <<>> THEN <<>> ELSE
    BigShiftLimbs(BigMulSmall(a, PowersOfTwo[(n % LimbBits) + 1]), n \div LimbBits)

\* floor(a / 2^n)
BigShr(a, n) ==
    IF a = <<>> THEN <<>> ELSE
    LET w == n \div LimbBits
        p == PowersOfTwo[(n % LimbBits) + 1]
        m == Len(a) - w
    IN  IF m <= 0 THEN <<>>
        ELSE BigNorm(SubSeq([i \in 1..m |->
                                (a[i + w] \div p)
                                + (Limb(a, i + w + 1) % p) * (LimbBase \div p)],
                            1, m))

\* a mod 2^n
BigLow(a, n) ==
    IF a = <<>> THEN <<>> ELSE
    LET w == n \div LimbBits
        p == PowersOfTwo[(n % LimbBits) + 1]
    IN  BigNorm(SubSeq([i \in 1..(w + 1) |->
                           IF i <= w THEN Limb(a, i) ELSE Limb(a, i) % p],
                       1, w + 1))

\* a mod 2^n against 2^(n-1): -1 below, 0 equal, 1 above; n >= 1
BigHalfCmp(a, n) == BigCmp(BigLow(a, n), BigShl(<<1>>, n - 1))

\* the number of bits of a limb
IntBitLen(k) == Cardinality({i \in 1..LimbBits : PowersOfTwo[i] <= k})

BitLen(a) == IF a = <<>> THEN 0 ELSE LimbBits * (Len(a) - 1) + IntBitLen(a[Len(a)])

BigIsOdd(a) == a # <<>> /\ a[1] % 2 = 1

\* floor(r / b) for r < b * 2^14 and a divisor whose top limb is at least
\* 2^13: the quotient of the leading limbs is at most 2 too large
DivDigit(r, b) ==
    IF r = <<>> THEN 0 ELSE
    LET n == Len(b)
        top == (Limb(r, n + 1) * LimbBase + Limb(r, n)) \div b[n]
        est == IF top >= LimbBase THEN LimbBase - 1 ELSE top
    IN  est - Cardinality({k \in {0, 1} :
                              k <= est /\ BigCmp(BigMulSmall(b, est - k), r) > 0})

\* long division in base 2^14, most significant digit first: the digits found
\* so far, the remainder r so far, and the limb a[i] to bring down next
RECURSIVE BigDivModFrom(_, _, _, _, _)
DivModTake(a, b, i, cur, d, digits) ==
    BigDivModFrom(a, b, i - 1, BigSub(cur, BigMulSmall(b, d)), Append(digits, d))

DivModNext(a, b, i, cur, digits) ==
    DivModTake(a, b, i, cur, DivDigit(cur, b), digits)

BigDivModFrom(a, b, i, r, digits) ==
    IF i = 0 THEN [digits |-> digits, r |-> r]
    ELSE DivModNext(a, b, i, BigNorm(<<a[i]>> \o r), digits)

\* the quotient of n digits, least significant limb first
DivModResult(n, d) ==
    [q |-> BigNorm(SubSeq([i \in 1..n |-> d.digits[n + 1 - i]], 1, n)),
     exact |-> d.r = <<>>]

\* sa by sb, sb having a top limb of at least 2^13 and sa >= sb
DivModScaled(sa, sb) ==
    LET n == Len(sa) - Len(sb) + 1
    IN  DivModResult(n, BigDivModFrom(sa, sb, n, SubSeq(sa, n + 1, Len(sa)), <<>>))

\* quotient q of a by b > 0 and whether the division is exact, after scaling
\* both so that the divisor's top limb is at least 2^13
BigDivMod(a, b) ==
    IF a = <<>> THEN [q |-> <<>>, exact |-> TRUE]
    ELSE IF BigCmp(a, b) < 0 THEN [q |-> <<>>, exact |-> FALSE]
    ELSE LET s == LimbBits - IntBitLen(b[Len(b)])
         IN  DivModScaled(BigShl(a, s), BigShl(b, s))

\* one step of Newton's iteration for the square root of a
SqrtStep(a, x) == IF x = <<>> THEN <<>> ELSE BigShr(BigAdd(x, BigDivMod(a, x).q), 1)

\* the rounded-up root of the two top limbs of a, as a number of four limbs
SqrtStart(a) ==
    <<0, 0, 0, CHOOSE r \in 1..LimbBase : r * r >= a[8] * LimbBase + a[7] + 1>>

\* x, or x - 1 when x is above the root of a
SqrtFloor(a, x) == IF BigCmp(BigMul(x, x), a) > 0 THEN BigSub(x, <<1>>) ELSE x

\* floor(sqrt(a)) for a of eight limbs with a top limb of at least 2^10: four
\* steps of Newton's iteration from the rounded-up root of the two top limbs
BigSqrt(a) ==
    SqrtFloor(a, SqrtStep(a, SqrtStep(a, SqrtStep(a, SqrtStep(a, SqrtStart(a))))))

FloatZero == [neg |-> FALSE, man |-> <<>>, exp |-> 0]

\* q, or q + 1: q is a number without its low bits, and c says whether these
\* were below (-1), at (0) or above (1) the half; a tie goes to the even one
RoundHalfEven(q, c) ==
    IF c > 0 \/ (c = 0 /\ BigIsOdd(q)) THEN BigAdd(q, <<1>>) ELSE q

\* the float of mantissa m, which has 53 bits, or 54 after a carry
FloatMake(neg, m, e) ==
    IF BitLen(m) > MantissaBits THEN [neg |-> neg, man |-> BigShr(m, 1), exp |-> e + 1]
    ELSE [neg |-> neg, man |-> m, exp |-> e]

\* n has k bits more than a mantissa
FloatRoundAt(neg, n, e, k) ==
    IF k <= 0 THEN [neg |-> neg, man |-> BigShl(n, -k), exp |-> e + k]
    ELSE FloatMake(neg, RoundHalfEven(BigShr(n, k), BigHalfCmp(n, k)), e + k)

\* the float nearest to (-1)^neg * n * 2^e, a tie going to the even mantissa
FloatRound(neg, n, e) ==
    IF n = <<>> THEN FloatZero ELSE FloatRoundAt(neg, n, e, BitLen(n) - MantissaBits)

\* the float of a quotient with a sticky bit for an inexact division
FloatOfDivMod(neg, dv, e) ==
    FloatRound(neg,
               BigAdd(BigMulSmall(dv.q, 2), IF dv.exact THEN <<>> ELSE <<1>>),
               e - 1)

\* a / b, the dividend shifted to give a quotient of at least 56 bits
FloatOfBigRatio(neg, a, b) ==
    LET s == IF BitLen(a) >= BitLen(b) + 56 THEN 0 ELSE BitLen(b) + 56 - BitLen(a)
    IN  FloatOfDivMod(neg, BigDivMod(BigShl(a, s), b), -s)

\* n / d for integers n and d > 0: int / int, and the float of a decimal
\* literal
FloatOfRatio(n, d) ==
    IF n = 0 THEN FloatZero ELSE FloatOfBigRatio(n < 0, BigOfInt(Abs(n)), BigOfInt(d))

\* the mantissa of a numpy float32
Binary32 == [mantissa_bits |-> 24]

\* n has k bits more than a float32 mantissa
Float32RoundAt(neg, n, e, k) ==
    IF k <= 0 THEN FloatRound(neg, n, e)
    ELSE FloatRound(neg, RoundHalfEven(BigShr(n, k), BigHalfCmp(n, k)), e + k)

\* the float32 nearest to (-1)^neg * n * 2^e, as the Python float that
\* float() makes of it
Float32Round(neg, n, e) ==
    IF n = <<>> THEN FloatZero
    ELSE Float32RoundAt(neg, n, e, BitLen(n) - Binary32.mantissa_bits)

\* the float32 of a quotient with a sticky bit for an inexact division
Float32OfDivMod(neg, dv, e) ==
    Float32Round(neg,
                 BigAdd(BigMulSmall(dv.q, 2), IF dv.exact THEN <<>> ELSE <<1>>),
                 e - 1)

Float32OfBigRatio(neg, a, b) ==
    LET s == IF BitLen(a) >= BitLen(b) + 56 THEN 0 ELSE BitLen(b) + 56 - BitLen(a)
    IN  Float32OfDivMod(neg, BigDivMod(BigShl(a, s), b), -s)

\* float(n / d) for numpy float32 n and d > 0 that hold integers
Float32OfRatio(n, d) ==
    IF n = 0 THEN FloatZero
    ELSE Float32OfBigRatio(n < 0, BigOfInt(Abs(n)), BigOfInt(d))

\* float(n)
FloatOfInt(n) == FloatRound(n < 0, BigOfInt(Abs(n)), 0)

FloatNeg(x) == IF x.man = <<>> THEN x ELSE [x EXCEPT !.neg = ~x.neg]
FloatAbs(x) == [x EXCEPT !.neg = FALSE]

\* -1, 0 or 1 as |x| < |y|, |x| = |y| or |x| > |y|
FloatCmpAbs(x, y) ==
    IF x.man = <<>> THEN (IF y.man = <<>> THEN 0 ELSE -1)
    ELSE IF y.man = <<>> THEN 1
    ELSE IF x.exp > y.exp THEN 1
    ELSE IF x.exp < y.exp THEN -1
    ELSE BigCmp(x.man, y.man)

\* -1, 0 or 1 as x < y, x = y or x > y
FloatCmp(x, y) ==
    IF x.neg /\ ~y.neg THEN -1
    ELSE IF ~x.neg /\ y.neg THEN 1
    ELSE (IF x.neg THEN -1 ELSE 1) * FloatCmpAbs(x, y)

FloatLess(x, y) == FloatCmp(x, y) < 0
FloatMin(x, y) == IF FloatLess(y, x) THEN y ELSE x
FloatMax(x, y) == IF FloatLess(x, y) THEN y ELSE x

\* nb 2^e + ns 2^e with the signs given, c comparing nb with ns
FloatAddAligned(bneg, sneg, nb, ns, e, c) ==
    FloatRound(IF bneg = sneg \/ c > 0 THEN bneg ELSE sneg,
               IF bneg = sneg THEN BigAdd(nb, ns)
               ELSE IF c > 0 THEN BigSub(nb, ns) ELSE BigSub(ns, nb),
               e)

FloatAddAt(big, small, nb, ns, e) ==
    FloatAddAligned(big.neg, small.neg, nb, ns, e, BigCmp(nb, ns))

\* big + small, the exponent of big being the larger one.  An operand more
\* than 64 binary places below the other only decides the direction of the
\* rounding
FloatAddOrdered(big, small) ==
    LET far == big.exp - small.exp > 64
        e == IF far THEN big.exp - 64 ELSE small.exp
    IN  FloatAddAt(big, small, BigShl(big.man, big.exp - e),
                   IF far THEN <<1>> ELSE small.man, e)

\* x + y: the exact sum, rounded
FloatAdd(x, y) ==
    IF x.man = <<>> THEN y
    ELSE IF y.man = <<>> THEN x
    ELSE FloatAddOrdered(IF x.exp >= y.exp THEN x ELSE y,
                         IF x.exp >= y.exp THEN y ELSE x)

FloatSub(x, y) == FloatAdd(x, FloatNeg(y))

FloatMul(x, y) ==
    IF x.man = <<>> \/ y.man = <<>> THEN FloatZero
    ELSE FloatRound(x.neg # y.neg, BigMul(x.man, y.man), x.exp + y.exp)

\* x / y for y # 0
FloatDiv(x, y) ==
    IF x.man = <<>> \/ y.man = <<>> THEN FloatZero
    ELSE FloatOfDivMod(x.neg # y.neg,
                       BigDivMod(BigShl(x.man, 4 * LimbBits), y.man),
                       x.exp - y.exp - (4 * LimbBits))

\* the float of mantissa q, or the next one up when up is set and q is n
\* without k low bits that are not all zero
FloatTowards(q, n, e, k, up) ==
    FloatMake(FALSE, IF up /\ BigShl(q, k) # n THEN BigAdd(q, <<1>>) ELSE q, e + k)

FloatSquareAt(n, e, k, up) ==
    IF k <= 0 THEN FloatRoundAt(FALSE, n, e, k)
    ELSE FloatTowards(BigShr(n, k), n, e, k, up)

FloatSquareOf(n, e, up) == FloatSquareAt(n, e, BitLen(n) - MantissaBits, up)

\* x ** 2 of a Python float: pow(x, 2.0) of the C library, which returns the
\* square when it is a float and else one of the two floats next to it, not
\* always the nearer one; up tells which
FloatSquare(x, up) ==
    IF x.man = <<>> THEN FloatZero
    ELSE FloatSquareOf(BigMul(x.man, x.man), 2 * x.exp, up)

\* the float of the root of n 2^(2 e), s being floor(sqrt(n))
FloatOfRoot(n, s, e) ==
    FloatRound(FALSE,
               BigAdd(BigMulSmall(s, 2), IF BigMul(s, s) = n THEN <<>> ELSE <<1>>),
               e - 1)

FloatSqrtOf(n, e) == FloatOfRoot(n, BigSqrt(n), e)

\* sqrt(x) for x >= 0
FloatSqrt(x) ==
    IF x.man = <<>> THEN FloatZero
    ELSE LET odd == IF x.exp % 2 = 1 THEN 1 ELSE 0
         IN  FloatSqrtOf(BigShl(x.man, 4 * LimbBits + odd),
                         (x.exp - (4 * LimbBits) - odd) \div 2)

\* n / 2^k to the nearest integer, a tie going to the even one
Round2Magnitude(n, k) ==
    IF k <= 0 THEN BigToInt(BigShl(n, -k))
    ELSE BigToInt(RoundHalfEven(BigShr(n, k), BigHalfCmp(n, k)))

\* round(x, 2) in hundredths: the integer nearest to the exact value of
\* 100 x, a tie going to the even one
FloatRound2(x) ==
    (IF x.neg THEN -1 ELSE 1) * Round2Magnitude(BigMulSmall(x.man, 100), -x.exp)


FloatLessEq(x, y) == FloatCmp(x, y) <= 0

\* the float nearest to the fraction a
FloatOfFrac(a) == FloatOfRatio(a.n, a.d)


----------------------------------------------------------------------------
(* Evaluation harness: services/results_evaluation_service.py              *)
(* (evaluations/evaluate.py holds the same match_detection,                *)
(* evaluate_detections and calculate_score)                                *)

RECURSIVE Gcd(_, _)
Gcd(a, b) == IF b = 0 THEN a ELSE Gcd(b, a % b)

\* Fractions n/d with d > 0, in lowest terms, for the true divisions of
\* calculate_score
Frac(n, d) == LET g == Gcd(Abs(n), d) IN [n |-> n \div g, d |-> d \div g]
FracOfInt(k) == Frac(k, 1)
FracAdd(a, b) == Frac(a.n * b.d + b.n * a.d, a.d * b.d)
FracSub(a, b) == Frac(a.n * b.d - b.n * a.d, a.d * b.d)
FracMul(a, b) == Frac(a.n * b.n, a.d * b.d)
\* a / b for b > 0
FracDiv(a, b) == Frac(a.n * b.d, a.d * b.n)
FracIsPositive(a) == a.n > 0
FracMax0(a) == IF a.n > 0 THEN a ELSE FracOfInt(0)

\* n / d rounded to the nearest integer, a tie going to the even one, n >= 0, d > 0
RoundDiv(n, d) ==
    LET q == n \div d
        r == n % d
    IN  IF 2 * r > d THEN q + 1
        ELSE IF 2 * r < d THEN q
        ELSE IF q % 2 = 0 THEN q ELSE q + 1

\* whether a lies halfway between two hundredths
IsHundredthsTie(a) == (200 * a.n) % a.d = 0 /\ ((200 * a.n) \div a.d) % 2 = 1

\* round(x, 2), as an integer number of hundredths, for a float x that the
\* program computed for the value a >= 0.  round() rounds the binary value of
\* the float half to even; the float is within 2^-40 of a, and a is either a
\* tie or at least 1 / (200 a.d) away from one, so that the float only decides
\* when a is a tie
Round2Of(a, x) ==
    IF IsHundredthsTie(a) THEN FloatRound2(x) ELSE RoundDiv(a.n * 100, a.d)

\* round(x, 2), as an integer number of hundredths, for the float x nearest to
\* a >= 0: a decimal literal, or the quotient of two floats that are integers
Round2(a) == Round2Of(a, FloatOfFrac(a))

\* the floats of the times up to 12.0 s, computed once
SecondsUpToTwelve == [t \in 0..120 |-> FloatOfRatio(t, 10)] @@ <<>>

\* the float of a time in tenths of a second: a timestamp or tolerance read
\* from JSON, or a timestamp that was rounded to two places
Seconds(t) ==
    IF t \in DOMAIN SecondsUpToTwelve THEN SecondsUpToTwelve[t] ELSE FloatOfRatio(t, 10)

\* abs(expected['timestamp'] - actual['timestamp']) on the floats
FloatTimeError(expected_time, actual_time) ==
    FloatAbs(FloatSub(Seconds(expected_time), Seconds(actual_time)))

\* time_diff <= tolerance (line 76) for times in tenths of a second.  The
\* floats only decide when the tenths are exactly the tolerance apart
WithinTolerance(expected_time, actual_time, tolerance) ==
    LET diff == Abs(expected_time - actual_time)
    IN  IF diff # tolerance THEN diff < tolerance
        ELSE FloatLessEq(FloatTimeError(expected_time, actual_time),
                         Seconds(tolerance))

EmptyMap == [x \in {} |-> 0]

\* EvaluationResult.__init__
NewEvaluationResult ==
    [true_positives |-> <<>>, false_positives |-> <<>>, false_negatives |-> <<>>,
     stats_correct |-> EmptyMap, stats_errors |-> EmptyMap]

\* EvaluationResult.add_true_positive; time_error is the error to the nearest
\* tenth, and FloatTimeError of the two times is the float the program holds
add_true_positive(res, expected, actual) ==
    [res EXCEPT !.true_positives = Append(@,
        [type |-> expected.type,
         expected_time |-> expected.timestamp,
         actual_time |-> actual.timestamp,
         time_error |-> Abs(expected.timestamp - actual.timestamp)])]

\* EvaluationResult.add_false_positive
add_false_positive(res, actual) ==
    [res EXCEPT !.false_positives = Append(@,
        [type |-> actual.classified_as, timestamp |-> actual.timestamp])]

\* EvaluationResult.add_false_negative
add_false_negative(res, expected) ==
    [res EXCEPT !.false_negatives = Append(@,
        [type |-> expected.type, expected_time |-> expected.timestamp])]

ScoredMarker == <<"(", "+">>
IgnoredMarker == <<"I", "G", "N", "O", "R", "E", "D">>

\* the test of match_detection's loop body on one detection (lines 69-77)
Matches(expected, detection) ==
    LET expected_type == Upper(expected.type)
        classified_as == Upper(detection.classified_as)
    IN  /\ Contains(expected_type, classified_as)
        /\ Contains(ScoredMarker, classified_as)
        /\ WithinTolerance(expected.timestamp, detection.timestamp,
                           expected.tolerance)

\* a matching that takes the candidate closest in time
ClosestOf(expected, dets, hits) ==
    LET error(i) == Abs(expected.timestamp - dets[i].timestamp)
    IN  IF hits = {} THEN [matched |-> FALSE]
        ELSE [matched |-> TRUE,
              detection |-> dets[CHOOSE i \in hits :
                                     \A j \in hits : error(i) <= error(j)]]

match_detection_closest(expected, dets) ==
    ClosestOf(expected, dets, {i \in 1..Len(dets) : Matches(expected, dets[i])})

\* the return of match_detection's loop (lines 77-79): the detection at the
\* first index that passed the test, or no match
FirstMatchOf(dets, hits) ==
    IF hits = {} THEN [matched |-> FALSE]
    ELSE [matched |-> TRUE,
          detection |-> dets[CHOOSE i \in hits : \A j \in hits : i <= j]]

\* match_detection: the first detection in list order that passes the test
match_detection(expected, dets) ==
    FirstMatchOf(dets, {i \in 1..Len(dets) : Matches(expected, dets[i])})

\* the index search of evaluate_detections (lines 99-102): the first index whose
\* detection equals the matched one
FirstIndexOf(dets, detection) ==
    CHOOSE i \in 1..Len(dets) :
        /\ dets[i] = detection
        /\ \A j \in 1..(i - 1) : dets[j] # detection

\* the body of the loop over expected detections (lines 95-104) once
\* match_detection has returned m
RecordMatch(acc, actual_detections, expected, m) ==
    IF m.matched
    THEN [result |-> add_true_positive(acc.result, expected, m.detection),
          matched_indices |-> acc.matched_indices \cup
              {FirstIndexOf(actual_detections, m.detection)}]
    ELSE [result |-> add_false_negative(acc.result, expected),
          matched_indices |-> acc.matched_indices]

\* the loop over expected detections (lines 93-104), from the e-th on
RECURSIVE MatchExpected(_, _, _, _)
MatchExpected(e, expected_detections, actual_detections, acc) ==
    IF e > Len(expected_detections) THEN acc
    ELSE MatchExpected(e + 1, expected_detections, actual_detections,
             RecordMatch(acc, actual_detections, expected_detections[e],
                 match_detection(expected_detections[e], actual_detections)))

\* a false-positive test that forgets the IGNORED exemption
IsFalsePositiveCountingIgnored(i, actual, matched) == i \notin matched

\* the test of the false-positive loop (lines 108-110)
IsFalsePositive(i, actual, matched) ==
    /\ i \notin matched
    /\ ~Contains(IgnoredMarker, actual.classified_as)

\* the loop over actual detections (lines 107-111), from the i-th on
RECURSIVE CollectFalsePositives(_, _, _, _)
CollectFalsePositives(i, actual_detections, matched, res) ==
    IF i > Len(actual_detections) THEN res
    ELSE CollectFalsePositives(i + 1, actual_detections, matched,
             IF IsFalsePositive(i, actual_detections[i], matched)
             THEN add_false_positive(res, actual_detections[i])
             ELSE res)

\* actual_stats.get(stat_name, 0)
StatGet(actual_stats, stat_name) ==
    IF stat_name \in DOMAIN actual_stats THEN actual_stats[stat_name] ELSE 0

\* the stats comparison (lines 114-125)
CompareStats(res, expected_stats, actual_stats) ==
    LET correct == {s \in DOMAIN expected_stats :
                        expected_stats[s] = StatGet(actual_stats, s)}
        wrong == DOMAIN expected_stats \ correct
    IN  [res EXCEPT
            !.stats_correct = [s \in correct |-> expected_stats[s]],
            !.stats_errors = [s \in wrong |->
                                 [expected |-> expected_stats[s],
                                  actual |-> StatGet(actual_stats, s)]]]

\* the false-positive loop and the stats comparison (lines 107-125) after the
\* loop over expected detections has left m
EvaluateRest(gt, sess, m) ==
    [result |-> CompareStats(
                    CollectFalsePositives(1, sess.detections, m.matched_indices,
                                          m.result),
                    gt.expected_stats, sess.stats),
     matched_indices |-> m.matched_indices]

\* evaluate_detections(ground_truth, session_results), with its matched_indices
evaluate_detections(gt, sess) ==
    EvaluateRest(gt, sess,
        MatchExpected(1, gt.expected_detections, sess.detections,
                      [result |-> NewEvaluationResult, matched_indices |-> {}]))

RECURSIVE SumTimeErrors(_)
SumTimeErrors(tps) ==
    IF tps = <<>> THEN 0 ELSE Head(tps).time_error + SumTimeErrors(Tail(tps))

\* a timing score that takes 10 points per second of error
TimingScoreHalfPenalty(avg_time_error) ==
    FracMax0(FracSub(FracOfInt(100), FracMul(avg_time_error, FracOfInt(10))))

\* a timing score that gives nothing when no time error was measured
TimingScoreNeedsError(avg_time_error) ==
    IF avg_time_error.n = 0 THEN FracOfInt(0)
    ELSE FracMax0(FracSub(FracOfInt(100), FracMul(avg_time_error, FracOfInt(20))))

\* timing_score = max(0, 100 - (avg_time_error * 20))
TimingScore(avg_time_error) ==
    FracMax0(FracSub(FracOfInt(100), FracMul(avg_time_error, FracOfInt(20))))

\* sum(tp['time_error'] for tp in result.true_positives) on the floats: from
\* 0, left to right
RECURSIVE FloatSumTimeErrors(_)
FloatSumTimeErrors(tps) ==
    IF tps = <<>> THEN FloatZero
    ELSE FloatAdd(FloatSumTimeErrors(SubSeq(tps, 1, Len(tps) - 1)),
                  FloatTimeError(tps[Len(tps)].expected_time,
                                 tps[Len(tps)].actual_time))

\* f1_score (line 144), from precision * recall and precision + recall
FloatF1OfParts(product, sum) ==
    IF FloatLess(FloatZero, sum)
    THEN FloatDiv(FloatMul(FloatOfInt(2), product), sum)
    ELSE FloatZero

FloatF1(precision, recall) ==
    FloatF1OfParts(FloatMul(precision, recall), FloatAdd(precision, recall))

\* timing_score (line 158)
FloatTimingScore(avg_time_error) ==
    FloatMax(FloatZero,
             FloatSub(FloatOfInt(100), FloatMul(avg_time_error, FloatOfInt(20))))

\* overall_score (line 159)
FloatOverallScore(f1_score, stats_accuracy, timing_score) ==
    FloatAdd(FloatAdd(FloatMul(f1_score, FloatOfInt(50)),
                      FloatMul(stats_accuracy, FloatOfRatio(3, 10))),
             FloatMul(timing_score, FloatOfRatio(2, 10)))

\* the floats that lines 162-168 round
FloatScoreFields(precision, recall, f1_score, stats_accuracy, avg_time_error,
                 timing_score) ==
    [overall_score |-> FloatOverallScore(f1_score, stats_accuracy, timing_score),
     precision |-> FloatMul(precision, FloatOfInt(100)),
     recall |-> FloatMul(recall, FloatOfInt(100)),
     f1_score |-> FloatMul(f1_score, FloatOfInt(100)),
     stats_accuracy |-> stats_accuracy,
     timing_score |-> timing_score,
     avg_time_error |-> avg_time_error]

FloatScoreRates(precision, recall, stats_accuracy, avg_time_error) ==
    FloatScoreFields(precision, recall, FloatF1(precision, recall), stats_accuracy,
                     avg_time_error, FloatTimingScore(avg_time_error))

\* the floats of lines 138-159, as lines 162-168 hand them to round
FloatScores(res, gt) ==
    LET tp_count == Len(res.true_positives)
        fp_count == Len(res.false_positives)
        fn_count == Len(res.false_negatives)
        total_stats == Cardinality(DOMAIN gt.expected_stats)
        correct_stats == Cardinality(DOMAIN res.stats_correct)
    IN  FloatScoreRates(
            IF tp_count + fp_count > 0
            THEN FloatOfRatio(tp_count, tp_count + fp_count) ELSE FloatZero,
            IF tp_count + fn_count > 0
            THEN FloatOfRatio(tp_count, tp_count + fn_count) ELSE FloatZero,
            IF total_stats > 0
            THEN FloatMul(FloatOfRatio(correct_stats, total_stats), FloatOfInt(100))
            ELSE FloatZero,
            IF res.true_positives # <<>>
            THEN FloatDiv(FloatSumTimeErrors(res.true_positives), FloatOfInt(tp_count))
            ELSE FloatZero)

\* lines 133-172 with the floats of FloatScores given.  Each field is computed
\* as a fraction, and rounded as its float when the fraction is a tie
RoundedScores(res, gt, floats) ==
    LET tp_count == Len(res.true_positives)
        fp_count == Len(res.false_positives)
        fn_count == Len(res.false_negatives)
        precision == IF tp_count + fp_count > 0
                     THEN Frac(tp_count, tp_count + fp_count) ELSE FracOfInt(0)
        recall == IF tp_count + fn_count > 0
                  THEN Frac(tp_count, tp_count + fn_count) ELSE FracOfInt(0)
        f1_score == IF FracIsPositive(FracAdd(precision, recall))
                    THEN FracDiv(FracMul(FracOfInt(2), FracMul(precision, recall)),
                                 FracAdd(precision, recall))
                    ELSE FracOfInt(0)
        total_stats == Cardinality(DOMAIN gt.expected_stats)
        correct_stats == Cardinality(DOMAIN res.stats_correct)
        stats_accuracy == IF total_stats > 0
                          THEN FracMul(Frac(correct_stats, total_stats), FracOfInt(100))
                          ELSE FracOfInt(0)
        avg_time_error == IF res.true_positives # <<>>
                          THEN Frac(SumTimeErrors(res.true_positives),
                                    10 * Len(res.true_positives))
                          ELSE FracOfInt(0)
        timing_score == TimingScore(avg_time_error)
        overall_score == FracAdd(FracAdd(FracMul(f1_score, FracOfInt(50)),
                                         FracMul(stats_accuracy, Frac(3, 10))),
                                 FracMul(timing_score, Frac(2, 10)))
    IN  [overall_score |-> Round2Of(overall_score, floats.overall_score),
         precision |-> Round2Of(FracMul(precision, FracOfInt(100)), floats.precision),
         recall |-> Round2Of(FracMul(recall, FracOfInt(100)), floats.recall),
         f1_score |-> Round2Of(FracMul(f1_score, FracOfInt(100)), floats.f1_score),
         stats_accuracy |-> Round2Of(stats_accuracy, floats.stats_accuracy),
         timing_accuracy |-> Round2Of(timing_score, floats.timing_score),
         avg_time_error_seconds |-> Round2Of(avg_time_error, floats.avg_time_error),
         true_positives |-> tp_count,
         false_positives |-> fp_count,
         false_negatives |-> fn_count]

\* calculate_score(result, ground_truth); time errors are in tenths of a second,
\* the rounded fields are in hundredths
calculate_score(res, gt) == RoundedScores(res, gt, FloatScores(res, gt))

\* Inputs.  Expected events of a ground truth (times in tenths of a second):
ExpectedEvents ==
    { [type |-> <<"s","h","o","t">>, timestamp |-> 100, tolerance |-> 10],
      [type |-> <<"s","h","o","t">>, timestamp |-> 105, tolerance |-> 10],
      [type |-> <<"a","s","s","i","s","t">>, timestamp |-> 100, tolerance |-> 5],
      [type |-> <<"a","s","s","i","s","t">>, timestamp |-> 105, tolerance |-> 5],
      [type |-> <<"s","h","o","t">>, timestamp |-> 107, tolerance |-> 3] }

ExpectedStats ==
    { EmptyMap,
      [s \in {"points"} |-> 2],
      [s \in {"points", "assists", "steals"} |->
           IF s = "points" THEN 2 ELSE IF s = "assists" THEN 1 ELSE 0] }

\* Dispositions that calculate_stats writes, and the frames of a session's
\* detections; at 10 frames per second a frame index is a time in tenths
SessionDispositions ==
    { Disposition(<<LabelShot>>), Disposition(<<LabelAssist>>),
      Disposition(<<LabelShot, LabelAssist>>), Disposition(<<>>) }

SessionFrames == {100, 104, 110}

SessionDetection(f, c) == [frame |-> f, timestamp |-> f, classified_as |-> c]

\* detections of one run: clips start at distinct, increasing frames
SessionDetectionLists ==
    { s \in SeqsUpTo({SessionDetection(f, c) : f \in SessionFrames,
                                               c \in SessionDispositions},
                     MaxSessionDetections) :
        \A i \in 1..(Len(s) - 1) : s[i].frame < s[i + 1].frame }

\* the stats calculate_stats returned for the run that wrote these dispositions
SessionStats(dets) ==
    [s \in DOMAIN build_initial_stats |->
        LET rule == SCORING_RULES[CHOOSE r \in 1..Len(SCORING_RULES) :
                                      SCORING_RULES[r].stat_name = s]
        IN  rule.points_value *
                Cardinality({i \in 1..Len(dets) :
                                 Contains(rule.label, dets[i].classified_as)})]

NoScore ==
    [overall_score |-> 0, precision |-> 0, recall |-> 0, f1_score |-> 0,
     stats_accuracy |-> 0, timing_accuracy |-> 0, avg_time_error_seconds |-> 0,
     true_positives |-> 0, false_positives |-> 0, false_negatives |-> 0]

EvalIdle ==
    /\ ev_pc = "idle"
    /\ ground_truth = [expected_detections |-> <<>>, expected_stats |-> EmptyMap]
    /\ session_results = [detections |-> <<>>, stats |-> build_initial_stats]
    /\ result = NewEvaluationResult
    /\ matched_indices = {}
    /\ score = NoScore

\* a ground truth of four shots that one detection at 10.4 matches, with time
\* errors of 0.1, 0.1, 0.1 and 0.4: the mean, 0.175, is half way between two
\* hundredths, and round(avg_time_error, 2) works on the float of the program
AverageTieGroundTruth ==
    [expected_detections |->
         << [type |-> <<"s","h","o","t">>, timestamp |-> 105, tolerance |-> 10],
            [type |-> <<"s","h","o","t">>, timestamp |-> 105, tolerance |-> 10],
            [type |-> <<"s","h","o","t">>, timestamp |-> 105, tolerance |-> 10],
            [type |-> <<"s","h","o","t">>, timestamp |-> 100, tolerance |-> 10] >>,
     expected_stats |-> [s \in {"points"} |-> 2]]

AverageTieSession ==
    LET dets == <<SessionDetection(104, Disposition(<<LabelShot>>))>>
    IN  [detections |-> dets, stats |-> SessionStats(dets)]

\* evaluate_session after load_ground_truth and load_session_results
InputsEval ==
    /\ ev_pc = "loaded"
    /\ \/ /\ \E ed \in SeqsUpTo(ExpectedEvents, MaxExpected), es \in ExpectedStats :
                 ground_truth = [expected_detections |-> ed, expected_stats |-> es]
          /\ \E dets \in SessionDetectionLists :
                 session_results = [detections |-> dets, stats |-> SessionStats(dets)]
       \/ /\ ground_truth = AverageTieGroundTruth
          /\ session_results = AverageTieSession
    /\ result = NewEvaluationResult
    /\ matched_indices = {}
    /\ score = NoScore

\* the assignment of what evaluate_detections returned
Evaluation(out) ==
    /\ result' = out.result
    /\ matched_indices' = out.matched_indices

\* result = evaluate_detections(ground_truth, session_results)
EvaluateDetections ==
    /\ ev_pc = "loaded"
    /\ Evaluation(evaluate_detections(ground_truth, session_results))
    /\ ev_pc' = "evaluated"
    /\ UNCHANGED <<ground_truth, session_results, score>>
    /\ UNCHANGED ev_others

\* score = calculate_score(result, ground_truth)
CalculateScore ==
    /\ ev_pc = "evaluated"
    /\ score' = calculate_score(result, ground_truth)
    /\ ev_pc' = "scored"
    /\ UNCHANGED <<ground_truth, session_results, result, matched_indices>>
    /\ UNCHANGED ev_others

----------------------------------------------------------------------------
(* Classifiers: services/classifiers/yolo_classifier.py and                 *)
(* videomae_classifier.py.  Ball coordinates are integers in units of       *)
(* 1/GridUnit of the frame, and a coordinate c stands for the float32       *)
(* nearest to c / GridUnit, which is what the detector's float32 box gives  *)
(* for a ball centred there.  A comparison of _analyze_trajectory is        *)
(* decided by the integers when they are off its threshold, where the       *)
(* floats are within 2^-20 of the values they stand for, and by the floats  *)
(* when the integers are exactly on it.  Confidences are in hundredths: the *)
(* hundredth nearest to the float confidence of the program.                *)

ActionUnknown == <<"u","n","k","n","o","w","n">>
ActionError == <<"e","r","r","o","r">>
ActionNoBall == <<"n","o","_","b","a","l","l","_","d","e","t","e","c","t","e","d">>
ActionShooting == <<"s","h","o","o","t","i","n","g"," ","b","a","s","k","e","t","b","a","l","l">>
ActionDribbling == <<"d","r","i","b","b","l","i","n","g"," ","b","a","s","k","e","t","b","a","l","l">>
ActionPassing == <<"p","a","s","s","i","n","g"," ","b","a","s","k","e","t","b","a","l","l">>
ActionCatching == <<"c","a","t","c","h","i","n","g"," ","b","a","s","k","e","t","b","a","l","l">>
ActionPlaying == <<"p","l","a","y","i","n","g"," ","b","a","s","k","e","t","b","a","l","l">>

ClassificationResult(a, c) == [action |-> a, confidence |-> c]

GridUnit == 40

\* the coordinate of a frame without a ball: (None, None)
None == -1

\* [(x, y) for x, y in positions if x is not None and y is not None]
ValidPositions(positions) ==
    SelectSeq(positions, LAMBDA p : p[1] # None /\ p[2] # None)

\* np.diff
Diff(s) == [i \in 1..(Len(s) - 1) |-> s[i + 1] - s[i]]

\* np.sign
Sign(v) == IF v > 0 THEN 1 ELSE IF v < 0 THEN -1 ELSE 0

\* np.sum(np.abs(s)), the numerator of np.mean(np.abs(s))
RECURSIVE SumAbs(_)
SumAbs(s) == IF s = <<>> THEN 0 ELSE Abs(Head(s)) + SumAbs(Tail(s))

\* np.sum(np.diff(np.sign(y_velocity)) != 0)
DirectionChanges(y_velocity) ==
    Cardinality({i \in 1..(Len(y_velocity) - 1) :
                     Sign(y_velocity[i + 1]) # Sign(y_velocity[i])})

\* the integer part of the square root of n >= 0
ISqrt(n) == CHOOSE r \in 0..n : r * r <= n /\ (r + 1) * (r + 1) > n

\* float(center_x) of a box centred at c / GridUnit of the frame (lines
\* 82-85): the corners come as float32, so does their mean over the frame size
Coord(c) == Float32OfRatio(c, GridUnit)

\* coords[-1] - coords[0] on the floats (lines 119-120)
FloatDelta(coords) == FloatSub(Coord(coords[Len(coords)]), Coord(coords[1]))

\* the sum of the first k of np.abs(np.diff(coords)) on the floats; numpy adds
\* fewer than 8 numbers in order
RECURSIVE FloatSumAbsDiff(_, _)
FloatSumAbsDiff(coords, k) ==
    IF k = 0 THEN FloatZero
    ELSE FloatAdd(FloatSumAbsDiff(coords, k - 1),
                  FloatAbs(FloatSub(Coord(coords[k + 1]), Coord(coords[k]))))

\* np.mean(np.abs(np.diff(coords))) on the floats (lines 123-127)
FloatMeanAbsDiff(coords) ==
    FloatDiv(FloatSumAbsDiff(coords, Len(coords) - 1), FloatOfInt(Len(coords) - 1))

\* what the C library's pow can return for dx**2 and for dy**2: the float
\* below or the float above a square that is no float
PowOutcomes == [dx : BOOLEAN, dy : BOOLEAN]

FloatHypot(dx, dy, pow) ==
    FloatSqrt(FloatAdd(FloatSquare(dx, pow.dx), FloatSquare(dy, pow.dy)))

\* np.sqrt(dx**2 + dy**2) on the floats (line 133)
FloatTotalMovement(x_coords, y_coords, pow) ==
    FloatHypot(FloatDelta(x_coords), FloatDelta(y_coords), pow)

\* dy < -0.1 (line 140)
DyBelowThreshold(y_coords) ==
    LET dy == y_coords[Len(y_coords)] - y_coords[1]
    IN  IF 10 * dy # -GridUnit THEN 10 * dy < -GridUnit
        ELSE FloatLess(FloatDelta(y_coords), FloatOfRatio(-1, 10))

\* avg_y_vel > 0.02 (line 148)
AvgYVelAboveThreshold(y_coords) ==
    LET sum_y_vel == SumAbs(Diff(y_coords))
        count == Len(y_coords) - 1
    IN  IF 50 * sum_y_vel # count * GridUnit THEN 50 * sum_y_vel > count * GridUnit
        ELSE FloatLess(FloatOfRatio(2, 100), FloatMeanAbsDiff(y_coords))

\* avg_x_vel > avg_y_vel * 1.5 (line 153)
AvgXVelAboveYVel(x_coords, y_coords) ==
    LET sum_x_vel == SumAbs(Diff(x_coords))
        sum_y_vel == SumAbs(Diff(y_coords))
    IN  IF 2 * sum_x_vel # 3 * sum_y_vel THEN 2 * sum_x_vel > 3 * sum_y_vel
        ELSE FloatLess(FloatMul(FloatMeanAbsDiff(y_coords), FloatOfRatio(3, 2)),
                       FloatMeanAbsDiff(x_coords))

\* dx^2 + dy^2 in grid units
MovementSquared(x_coords, y_coords) ==
    LET dx == x_coords[Len(x_coords)] - x_coords[1]
        dy == y_coords[Len(y_coords)] - y_coords[1]
    IN  dx * dx + dy * dy

\* total_movement > 0.15 (line 153)
MovementAboveThreshold(x_coords, y_coords, pow) ==
    LET movement_sq == MovementSquared(x_coords, y_coords)
    IN  IF 400 * movement_sq # 9 * GridUnit * GridUnit
        THEN 400 * movement_sq > 9 * GridUnit * GridUnit
        ELSE FloatLess(FloatOfRatio(15, 100),
                       FloatTotalMovement(x_coords, y_coords, pow))

\* total_movement < 0.05 (line 158)
MovementBelowThreshold(x_coords, y_coords, pow) ==
    LET movement_sq == MovementSquared(x_coords, y_coords)
    IN  IF 400 * movement_sq # GridUnit * GridUnit
        THEN 400 * movement_sq < GridUnit * GridUnit
        ELSE FloatLess(FloatTotalMovement(x_coords, y_coords, pow),
                       FloatOfRatio(5, 100))

\* a shooting confidence without its cap
shooting_confidence_uncapped(dy) ==
    FloatAdd(FloatOfRatio(5, 10), FloatMul(FloatAbs(dy), FloatOfInt(2)))

\* confidence = min(0.9, 0.5 + abs(dy) * 2) on the float dy (line 145)
shooting_confidence(dy) ==
    FloatMin(FloatOfRatio(9, 10),
             FloatAdd(FloatOfRatio(5, 10), FloatMul(FloatAbs(dy), FloatOfInt(2))))

\* confidence = min(0.8, 0.4 + total_movement * 2) in hundredths (line 155):
\* 200 total_movement is the square root of 40000 movement_sq / GridUnit^2,
\* which is never halfway between two integers
passing_confidence(movement_sq) ==
    Min(80, 40 + (ISqrt((160000 * movement_sq) \div (GridUnit * GridUnit)) + 1) \div 2)

\* _analyze_trajectory(positions), pow being what the C library returns for
\* the two squares of line 133
analyze_trajectory(positions, pow) ==
    LET valid_positions == ValidPositions(positions)
        n == Len(valid_positions)
        x_coords == [i \in 1..n |-> valid_positions[i][1]]
        y_coords == [i \in 1..n |-> valid_positions[i][2]]
        y_direction_changes == DirectionChanges(Diff(y_coords))
        mid_y == y_coords[(n \div 2) + 1]
    IN  IF n < 3 THEN ClassificationResult(ActionNoBall, 0)
        ELSE IF DyBelowThreshold(y_coords) /\ n > 5
        THEN IF mid_y < y_coords[1] /\ mid_y < y_coords[n]
             THEN ClassificationResult(ActionShooting,
                      FloatRound2(shooting_confidence(FloatDelta(y_coords))))
             ELSE ClassificationResult(ActionUnknown, 0)
        ELSE IF y_direction_changes >= 2 /\ AvgYVelAboveThreshold(y_coords)
        THEN ClassificationResult(ActionDribbling, Min(85, 40 + 15 * y_direction_changes))
        ELSE IF /\ AvgXVelAboveYVel(x_coords, y_coords)
                /\ MovementAboveThreshold(x_coords, y_coords, pow)
        THEN ClassificationResult(ActionPassing,
                 passing_confidence(MovementSquared(x_coords, y_coords)))
        ELSE IF MovementBelowThreshold(x_coords, y_coords, pow) /\ n > 5
        THEN ClassificationResult(ActionCatching, 60)
        ELSE ClassificationResult(ActionPlaying, 50)

\* what the ball detector can report for one frame: a box centre, or no ball
BallPositions == {<<10, 10>>, <<10, 20>>, <<10, 25>>, <<10, 30>>, <<30, 20>>}

DetectionOutcomes == BallPositions \cup {<<None, None>>}

\* a shot seen in 7 frames: the ball at x = 0.5 and
\* y = 0.8, 0.6, 0.4, 0.25, 0.2, 0.3, 0.5
ExampleArc ==
    << <<20, 32>>, <<20, 24>>, <<20, 16>>, <<20, 10>>, <<20, 8>>, <<20, 12>>,
       <<20, 20>> >>

\* the same shot with the ball missed by the detector in some of the frames
ExampleWithMisses ==
    { [i \in 1..Len(ExampleArc) |->
          IF i \in missed THEN <<None, None>> ELSE ExampleArc[i]] :
      missed \in SUBSET (1..Len(ExampleArc)) }

\* arcs whose rise is a tenth of the frame, where dy < -0.1 is decided by the
\* floats: 0.7 - 0.8 and 0.2 - 0.3 are below -0.1 and 0.3 - 0.4 is not
BoundaryArcs ==
    { << <<20, 32>>, <<20, 20>>, <<20, 20>>, <<20, 20>>, <<20, 20>>, <<20, 20>>,
         <<20, 28>> >>,
      << <<20, 12>>, <<20, 4>>, <<20, 4>>, <<20, 4>>, <<20, 4>>, <<20, 4>>,
         <<20, 8>> >>,
      << <<20, 16>>, <<20, 4>>, <<20, 4>>, <<20, 4>>, <<20, 4>>, <<20, 4>>,
         <<20, 12>> >> }

\* what VideoMAE's argmax and softmax can report for a clip
PredictedLabels == ActionLabels
PredictedConfidences == Confidences

ClassifierKinds == {"yolo", "videomae"}

NoResult == ClassificationResult(<<>>, 0)

\* is_ready(): super().is_ready() and self.model is not None
is_ready == cl_ready /\ cl_model

\* no initialize() call yet
NoInitialize == [called |-> FALSE, was_ready |-> FALSE, loaded |-> FALSE,
                 returned |-> FALSE]

ClassifyIdle ==
    /\ cl_pc = "idle"
    /\ cl_kind = "yolo"
    /\ cl_ready = FALSE /\ cl_model = FALSE
    /\ cl_frames = 0
    /\ cl_positions = <<>>
    /\ cl_failed = FALSE
    /\ cl_result = NoResult
    /\ cl_init = NoInitialize

\* a classifier after __init__, and the clip a caller will pass to classify
InputsClassify ==
    /\ cl_pc = "constructed"
    /\ cl_kind \in ClassifierKinds
    /\ cl_ready = FALSE /\ cl_model = FALSE
    /\ cl_frames \in 0..MaxClipFrames
    /\ cl_positions = <<>>
    /\ cl_failed = FALSE
    /\ cl_result = NoResult
    /\ cl_init = NoInitialize

\* a ready YOLO classifier inside classify, _detect_ball_positions having
\* returned the positions of the shot
InputsTrajectory ==
    /\ cl_pc = "detect"
    /\ cl_kind = "yolo"
    /\ cl_ready = TRUE /\ cl_model = TRUE
    /\ cl_frames = Len(ExampleArc)
    /\ cl_positions \in ExampleWithMisses \cup BoundaryArcs
    /\ cl_failed = FALSE
    /\ cl_result = NoResult
    /\ cl_init = [called |-> TRUE, was_ready |-> FALSE, loaded |-> TRUE,
                  returned |-> TRUE]

\* initialize(), the model loads: YOLO(self.model_path) or from_pretrained is
\* called whatever is_ready() was
InitializeSucceeds ==
    /\ cl_pc = "constructed"
    /\ cl_ready' = TRUE /\ cl_model' = TRUE
    /\ cl_init' = [called |-> TRUE, was_ready |-> is_ready, loaded |-> TRUE,
                   returned |-> TRUE]
    /\ UNCHANGED <<cl_pc, cl_kind, cl_frames, cl_positions, cl_failed, cl_result>>
    /\ UNCHANGED cl_others

\* initialize(), loading raises: the except branch
InitializeFails ==
    /\ cl_pc = "constructed"
    /\ cl_ready' = FALSE /\ cl_model' = FALSE
    /\ cl_init' = [called |-> TRUE, was_ready |-> is_ready, loaded |-> TRUE,
                   returned |-> FALSE]
    /\ UNCHANGED <<cl_pc, cl_kind, cl_frames, cl_positions, cl_failed, cl_result>>
    /\ UNCHANGED cl_others

\* classify(frames) up to the try: the readiness check
ClassifyCall ==
    /\ cl_pc = "constructed"
    /\ IF ~is_ready
       THEN /\ cl_result' = ClassificationResult(ActionUnknown, 0)
            /\ cl_pc' = "returned"
       ELSE /\ cl_result' = cl_result
            /\ cl_pc' = IF cl_kind = "yolo" THEN "detect" ELSE "sample"
    /\ UNCHANGED <<cl_init, cl_kind, cl_ready, cl_model, cl_frames, cl_positions, cl_failed>>
    /\ UNCHANGED cl_others

\* an exception that leaves classify instead of being handled
OnExceptionPropagates == [pc |-> "raised", result |-> NoResult]

\* except Exception: return ClassificationResult(action="error", confidence=0.0)
OnException == [pc |-> "returned", result |-> ClassificationResult(ActionError, 0)]

\* an exception raised inside the try block
Raise ==
    /\ cl_failed' = TRUE
    /\ cl_pc' = OnException.pc
    /\ cl_result' = OnException.result

\* _detect_ball_positions, one iteration of its loop over frames
DetectFrame ==
    /\ cl_pc = "detect"
    /\ Len(cl_positions) < cl_frames
    /\ \E p \in DetectionOutcomes : cl_positions' = Append(cl_positions, p)
    /\ UNCHANGED <<cl_init, cl_pc, cl_kind, cl_ready, cl_model, cl_frames, cl_failed, cl_result>>
    /\ UNCHANGED cl_others

\* result = self._analyze_trajectory(positions); return result
AnalyzeTrajectory ==
    /\ cl_pc = "detect"
    /\ Len(cl_positions) = cl_frames
    /\ \E pow \in PowOutcomes : cl_result' = analyze_trajectory(cl_positions, pow)
    /\ cl_pc' = "returned"
    /\ UNCHANGED <<cl_init, cl_kind, cl_ready, cl_model, cl_frames, cl_positions, cl_failed>>
    /\ UNCHANGED cl_others

\* VideoMAE: indices = np.linspace(0, len(frames) - 1, 16, dtype=int) and
\* sampled_frames = [frames[i] for i in indices]; frames[0] of an empty clip
\* raises IndexError
SampleFrames ==
    /\ cl_pc = "sample"
    /\ IF cl_frames = 0
       THEN Raise
       ELSE /\ cl_pc' = "infer"
            /\ UNCHANGED <<cl_failed, cl_result>>
    /\ UNCHANGED <<cl_init, cl_kind, cl_ready, cl_model, cl_frames, cl_positions>>
    /\ UNCHANGED cl_others

\* VideoMAE: processor, model, softmax, argmax and id2label
Predict ==
    /\ cl_pc = "infer"
    /\ \E a \in PredictedLabels, c \in PredictedConfidences :
           cl_result' = ClassificationResult(a, c)
    /\ cl_pc' = "returned"
    /\ UNCHANGED <<cl_init, cl_kind, cl_ready, cl_model, cl_frames, cl_positions, cl_failed>>
    /\ UNCHANGED cl_others

\* the detector, the trajectory arithmetic, the processor or the model raises
StepRaises ==
    /\ cl_pc \in {"detect", "infer"}
    /\ Raise
    /\ UNCHANGED <<cl_init, cl_kind, cl_ready, cl_model, cl_frames, cl_positions>>
    /\ UNCHANGED cl_others


----------------------------------------------------------------------------
(* Classifier factories: ClassifierRegistry and ClassifierFactory of         *)
(* services/classifiers/base.py, ClassifierFactory of                       *)
(* services/video_analysis_service.py and get_classifier of analyze.py.     *)
(* create is modelled statement by statement, so that requests of a         *)
(* threaded server can interleave between its statements.                   *)

\* the identifiers registered in services/classifiers/__init__.py
RegisteredIds ==
    {"videomae", "yolo", "timesformer", "x3d", "clip", "vivit", "slowfast"}

\* the identifiers requests ask for; "resnet" is not registered
RequestedIds == {"videomae", "yolo", "resnet"}

FactoryImpls == {"registry", "service", "legacy"}

Requests == {"request1", "request2"}

\* an instance is the class it was constructed from and its identity
NoInstance == [cls |-> "None", n |-> 0]

\* the cache slot the factory uses for classifier_type: the key itself in
\* _instances, the branch taken in the if / elif chains
Slot(impl, classifier_type) ==
    IF impl = "registry" THEN classifier_type
    ELSE IF impl = "service"
    THEN IF classifier_type \in RegisteredIds \ {"videomae"}
         THEN classifier_type ELSE "videomae"
    ELSE IF classifier_type = "yolo" THEN "yolo" ELSE "videomae"

CacheKeys == RegisteredIds \cup RequestedIds

\* ClassifierRegistry.is_registered(name): name in cls._registry
is_registered(name) == name \in fa_registry

\* a test of the cache that never finds the instance
CachedNever(slot) == FALSE

\* classifier_type in cls._instances / cls._yolo is not None
Cached(slot) == fa_instances[slot] # NoInstance

NoOutcome == [kind |-> "none", instance |-> NoInstance]

FactoryIdle ==
    /\ fa_impl = "registry"
    /\ fa_concurrent = FALSE
    /\ fa_pc = [r \in Requests |-> "idle"]
    /\ fa_arg = [r \in Requests |-> "videomae"]
    /\ fa_instance = [r \in Requests |-> NoInstance]
    /\ fa_target = [r \in Requests |-> NoInstance]
    /\ fa_outcome = [r \in Requests |-> NoOutcome]
    /\ fa_instances = [k \in CacheKeys |-> NoInstance]
    /\ fa_registry = RegisteredIds
    /\ fa_default = "videomae"
    /\ fa_cleared = FALSE
    /\ fa_fresh = 0
    /\ fa_ready = {}
    /\ fa_calls = 0
    /\ fa_constructed = [k \in CacheKeys |-> 0]
    /\ fa_initialized = [k \in CacheKeys |-> 0]
    /\ fa_init_failed = [k \in CacheKeys |-> 0]
    /\ fa_stored = [k \in CacheKeys |-> {}]
    /\ fa_returned = [k \in CacheKeys |-> {}]

\* a process that has imported one of the factories: nothing is cached
InputsFactory(concurrent) ==
    /\ fa_impl \in FactoryImpls
    /\ fa_concurrent = concurrent
    /\ fa_pc = [r \in Requests |-> "idle"]
    /\ fa_arg = [r \in Requests |-> "videomae"]
    /\ fa_instance = [r \in Requests |-> NoInstance]
    /\ fa_target = [r \in Requests |-> NoInstance]
    /\ fa_outcome = [r \in Requests |-> NoOutcome]
    /\ fa_instances = [k \in CacheKeys |-> NoInstance]
    /\ fa_registry = RegisteredIds
    /\ fa_default = "videomae"
    /\ fa_cleared = FALSE
    /\ fa_fresh = 0
    /\ fa_ready = {}
    /\ fa_calls = 0
    /\ fa_constructed = [k \in CacheKeys |-> 0]
    /\ fa_initialized = [k \in CacheKeys |-> 0]
    /\ fa_init_failed = [k \in CacheKeys |-> 0]
    /\ fa_stored = [k \in CacheKeys |-> {}]
    /\ fa_returned = [k \in CacheKeys |-> {}]

fa_history == <<fa_constructed, fa_initialized, fa_init_failed, fa_stored, fa_returned>>

\* what register, set_default and clear_cache write
fa_config == <<fa_registry, fa_default, fa_cleared>>

\* a request enters create(classifier_type)
Call(r, classifier_type) ==
    /\ fa_pc[r] = "idle"
    /\ fa_calls < MaxCreateCalls
    /\ fa_concurrent \/ \A q \in Requests : fa_pc[q] = "idle"
    /\ fa_pc' = [fa_pc EXCEPT ![r] = "check"]
    /\ fa_arg' = [fa_arg EXCEPT ![r] = classifier_type]
    /\ fa_instance' = [fa_instance EXCEPT ![r] = NoInstance]
    /\ fa_outcome' = [fa_outcome EXCEPT ![r] = NoOutcome]
    /\ fa_calls' = fa_calls + 1
    /\ UNCHANGED <<fa_impl, fa_concurrent, fa_target, fa_instances, fa_fresh, fa_ready>>
    /\ UNCHANGED fa_history
    /\ UNCHANGED fa_config
    /\ UNCHANGED fa_others

\* base.ClassifierFactory.create() without a classifier_type:
\* classifier_type = cls._default (lines 184-185)
CallDefault(r) ==
    /\ fa_impl = "registry"
    /\ Call(r, fa_default)

\* if classifier_type not in cls._instances: / if cls._yolo is None:
CheckCached(r) ==
    /\ fa_pc[r] = "check"
    /\ fa_pc' = [fa_pc EXCEPT ![r] =
                    IF Cached(Slot(fa_impl, fa_arg[r])) THEN "return" ELSE "construct"]
    /\ UNCHANGED <<fa_impl, fa_concurrent, fa_arg, fa_instance, fa_target, fa_outcome,
                   fa_instances, fa_fresh, fa_ready, fa_calls>>
    /\ UNCHANGED fa_history
    /\ UNCHANGED fa_config
    /\ UNCHANGED fa_others

\* registry: factory_fn = ClassifierRegistry.get(classifier_type), which raises
\* ValueError for an unregistered identifier, and instance = factory_fn();
\* service and legacy: the constructor call on the right of cls._yolo = ...
Construct(r) ==
    /\ fa_pc[r] = "construct"
    /\ LET slot == Slot(fa_impl, fa_arg[r])
       IN  IF fa_impl = "registry" /\ fa_arg[r] \notin fa_registry
           THEN /\ fa_pc' = [fa_pc EXCEPT ![r] = "idle"]
                /\ fa_outcome' = [fa_outcome EXCEPT ![r] =
                                     [kind |-> "ValueError", instance |-> NoInstance]]
                /\ UNCHANGED <<fa_instance, fa_fresh, fa_constructed>>
           ELSE /\ fa_fresh' = fa_fresh + 1
                /\ fa_instance' = [fa_instance EXCEPT ![r] =
                                      [cls |-> slot, n |-> fa_fresh + 1]]
                /\ fa_constructed' = [fa_constructed EXCEPT ![slot] = @ + 1]
                /\ fa_pc' = [fa_pc EXCEPT ![r] =
                                IF fa_impl = "registry" THEN "initialize" ELSE "store"]
                /\ UNCHANGED fa_outcome
    /\ UNCHANGED <<fa_impl, fa_concurrent, fa_arg, fa_target, fa_instances, fa_ready,
                   fa_calls>>
    /\ UNCHANGED <<fa_initialized, fa_init_failed, fa_stored, fa_returned>>
    /\ UNCHANGED fa_config
    /\ UNCHANGED fa_others

\* cls._instances[classifier_type] = instance / the assignment of cls._yolo = ...
Store(r) ==
    /\ fa_pc[r] = "store"
    /\ LET slot == Slot(fa_impl, fa_arg[r])
       IN  /\ fa_instances' = [fa_instances EXCEPT ![slot] = fa_instance[r]]
           /\ fa_stored' = [fa_stored EXCEPT ![slot] = @ \cup {fa_instance[r]}]
    /\ fa_pc' = [fa_pc EXCEPT ![r] =
                    IF fa_impl = "registry" THEN "return" ELSE "initialize"]
    /\ UNCHANGED <<fa_impl, fa_concurrent, fa_arg, fa_instance, fa_target, fa_outcome,
                   fa_fresh, fa_ready, fa_calls>>
    /\ UNCHANGED <<fa_constructed, fa_initialized, fa_init_failed, fa_returned>>
    /\ UNCHANGED fa_config
    /\ UNCHANGED fa_others

\* the call of initialize: instance.initialize() on the local instance in the
\* registry factory; cls._yolo.initialize() in service and legacy, on the
\* instance the cache holds when the call is made
CallInitialize(r) ==
    /\ fa_pc[r] = "initialize"
    /\ LET slot == Slot(fa_impl, fa_arg[r])
       IN  /\ fa_target' = [fa_target EXCEPT ![r] =
                  IF fa_impl = "registry" THEN fa_instance[r] ELSE fa_instances[slot]]
           /\ fa_initialized' = [fa_initialized EXCEPT ![slot] = @ + 1]
    /\ fa_pc' = [fa_pc EXCEPT ![r] = "load"]
    /\ UNCHANGED <<fa_impl, fa_concurrent, fa_arg, fa_instance, fa_outcome, fa_instances,
                   fa_fresh, fa_ready, fa_calls>>
    /\ UNCHANGED <<fa_constructed, fa_init_failed, fa_stored, fa_returned>>
    /\ UNCHANGED fa_config
    /\ UNCHANGED fa_others

\* initialize of the instance it was called on comes to its end: the model is
\* loaded and self._ready = True, or the load has failed and self._ready = False.
\* registry: if not instance.initialize(): raise RuntimeError(...); service and
\* legacy ignore what initialize returns
FactoryInitialize(r) ==
    /\ fa_pc[r] = "load"
    /\ LET slot == Slot(fa_impl, fa_arg[r])
           target == fa_target[r]
       IN  \E ok \in BOOLEAN :
               /\ fa_init_failed' = [fa_init_failed EXCEPT ![slot] =
                                        IF ok THEN @ ELSE @ + 1]
               /\ fa_ready' = IF ok THEN fa_ready \cup {target} ELSE fa_ready \ {target}
               /\ IF fa_impl = "registry" /\ ~ok
                  THEN /\ fa_pc' = [fa_pc EXCEPT ![r] = "idle"]
                       /\ fa_outcome' = [fa_outcome EXCEPT ![r] =
                              [kind |-> "RuntimeError", instance |-> NoInstance]]
                  ELSE /\ fa_pc' = [fa_pc EXCEPT ![r] =
                                       IF fa_impl = "registry" THEN "store" ELSE "return"]
                       /\ UNCHANGED fa_outcome
    /\ fa_target' = [fa_target EXCEPT ![r] = NoInstance]
    /\ UNCHANGED <<fa_impl, fa_concurrent, fa_arg, fa_instance, fa_instances,
                   fa_fresh, fa_calls>>
    /\ UNCHANGED <<fa_constructed, fa_initialized, fa_stored, fa_returned>>
    /\ UNCHANGED fa_config
    /\ UNCHANGED fa_others

\* return cls._instances[classifier_type], a KeyError when the key has been
\* cleared in between / return cls._yolo
Return(r) ==
    /\ fa_pc[r] = "return"
    /\ LET instance == fa_instances[Slot(fa_impl, fa_arg[r])]
       IN  IF fa_impl = "registry" /\ instance = NoInstance
           THEN /\ fa_outcome' = [fa_outcome EXCEPT ![r] =
                                     [kind |-> "KeyError", instance |-> NoInstance]]
                /\ UNCHANGED fa_returned
           ELSE /\ fa_outcome' = [fa_outcome EXCEPT ![r] =
                                     [kind |-> "returned", instance |-> instance]]
                /\ fa_returned' = [fa_returned EXCEPT ![fa_arg[r]] =
                                       @ \cup {instance}]
    /\ fa_pc' = [fa_pc EXCEPT ![r] = "idle"]
    /\ UNCHANGED <<fa_impl, fa_concurrent, fa_arg, fa_instance, fa_target, fa_instances,
                   fa_fresh, fa_ready, fa_calls>>
    /\ UNCHANGED <<fa_constructed, fa_initialized, fa_init_failed, fa_stored>>
    /\ UNCHANGED fa_config
    /\ UNCHANGED fa_others

\* what a call of register, set_default or clear_cache leaves alone
fa_requests == <<fa_impl, fa_concurrent, fa_pc, fa_arg, fa_instance, fa_target, fa_outcome,
                 fa_fresh, fa_ready, fa_calls>>

\* ClassifierRegistry.register(name, factory): cls._registry[name] = factory
Register(name) ==
    /\ fa_impl = "registry"
    /\ fa_concurrent \/ \A q \in Requests : fa_pc[q] = "idle"
    /\ fa_registry' = fa_registry \cup {name}
    /\ UNCHANGED <<fa_instances, fa_default, fa_cleared>>
    /\ UNCHANGED fa_requests
    /\ UNCHANGED fa_history
    /\ UNCHANGED fa_others

\* ClassifierFactory.set_default(name): ValueError for an unregistered name,
\* which changes nothing, and cls._default = name
SetDefault(name) ==
    /\ fa_impl = "registry"
    /\ fa_concurrent \/ \A q \in Requests : fa_pc[q] = "idle"
    /\ fa_default' = IF name \in fa_registry THEN name ELSE fa_default
    /\ UNCHANGED <<fa_instances, fa_registry, fa_cleared>>
    /\ UNCHANGED fa_requests
    /\ UNCHANGED fa_history
    /\ UNCHANGED fa_others

\* ClassifierFactory.clear_cache(): cls._instances.clear()
ClearCache ==
    /\ fa_impl = "registry"
    /\ fa_concurrent \/ \A q \in Requests : fa_pc[q] = "idle"
    /\ fa_instances' = [k \in CacheKeys |-> NoInstance]
    /\ fa_cleared' = TRUE
    /\ UNCHANGED <<fa_registry, fa_default>>
    /\ UNCHANGED fa_requests
    /\ UNCHANGED fa_history
    /\ UNCHANGED fa_others

----------------------------------------------------------------------------
(* Session store: SessionStorage of utils/storage.py over the file          *)
(* sessions.jsonl.  A record is a dict, a function from its keys.  The file *)
(* is its bytes, held as runs of bytes that come from one written line.     *)
(* Python reads and writes the file through a text layer over a buffer: a   *)
(* reader asks the file for up to ChunkSize bytes at its own position when  *)
(* it has no whole line left, and a writer hands its pending lines to the   *)
(* file, at its own position, when one more line would take them past       *)
(* ChunkSize, when they have reached it, and when the file is closed.       *)
(* create, get and update are modelled in these steps: the test for the     *)
(* file, each open, each read and each write, so that another caller can    *)
(* come in between any two of them.                                         *)

\* the keys of the records, in the order of session_data (lines 147-155 of
\* video_analysis_service.py); evaluation is the key update adds
JsonKeys ==
    <<"session_id", "timestamp", "video_duration", "total_detections",
      "classifier_used", "stats", "detections", "evaluation">>

IsMember(data, k) == k \in DOMAIN data

\* json.dumps(data): the members of the object, a <<key, value>> pair each, in
\* the order of the dict
dumps(data) ==
    LET ks == SelectSeq(JsonKeys, LAMBDA k : IsMember(data, k))
    IN  [i \in 1..Len(ks) |-> <<ks[i], data[ks[i]]>>]

\* the place of the last member with the key
LastMember(members, k) ==
    CHOOSE i \in 1..Len(members) :
        /\ members[i][1] = k
        /\ \A j \in (i + 1)..Len(members) : members[j][1] # k

\* json.loads of the text of an object with these members: the dict, in which
\* a key that comes twice has its last value
loads(members) ==
    [k \in {members[i][1] : i \in 1..Len(members)} |->
        members[LastMember(members, k)][2]]

\* a classifier name of 8090 letters, of a record whose line and the next do
\* not go into one read
LongName ==
    LET x2 == "xx"
        x8 == x2 \o x2 \o x2 \o x2
        x16 == x8 \o x8
        x128 == x16 \o x16 \o x16 \o x16 \o x16 \o x16 \o x16 \o x16
        x256 == x128 \o x128
        x512 == x256 \o x256
        x1024 == x512 \o x512
        x2048 == x1024 \o x1024
        x4096 == x2048 \o x2048
    IN  x4096 \o x2048 \o x1024 \o x512 \o x256 \o x128 \o x16 \o x8 \o x2

\* the characters of a string
Chars(s) == [i \in 1..Len(s) |-> SubSeq(s, i, i)]

\* str(d) of a digit
Digit(d) ==
    CASE d = 0 -> "0" [] d = 1 -> "1" [] d = 2 -> "2" [] d = 3 -> "3" [] d = 4 -> "4"
      [] d = 5 -> "5" [] d = 6 -> "6" [] d = 7 -> "7" [] d = 8 -> "8" [] d = 9 -> "9"

\* len(str(v)) of an integer v >= 0
RECURSIVE Digits(_)
Digits(v) == IF v < 10 THEN 1 ELSE 1 + Digits(v \div 10)

\* str(v) of an integer v >= 0
RECURSIVE IntText(_)
IntText(v) == IF v < 10 THEN <<Digit(v)>> ELSE Append(IntText(v \div 10), Digit(v % 10))

\* the last width digits of v, zeros in front
RECURSIVE Padded(_, _)
Padded(v, width) ==
    IF width = 0 THEN <<>> ELSE Append(Padded(v \div 10, width - 1), Digit(v % 10))

\* f"{v:04d}" and the like: at least width digits
ZeroFilled(v, width) == IF Digits(v) >= width THEN IntText(v) ELSE Padded(v, width)

\* the bytes of a dict or a list of n members whose texts take sum bytes: the
\* brackets, and ', ' between the members
Enclosed(sum, n) == 2 + sum + (IF n = 0 THEN 0 ELSE 2 * (n - 1))

\* the bytes of '"key": ' before a value of size bytes
Keyed(key, size) == Len(key) + 4 + size

\* a string in its quotes
Quoted(chars) == <<"\"">> \o chars \o <<"\"">>

\* '"key": ' before the text of a value
KeyedText(key, text) == Quoted(Chars(key)) \o <<":", " ">> \o text

\* a dict or a list: the texts of its members between the brackets
DictText(texts) == <<"{">> \o Join(JoinSeparator, texts) \o <<"}">>
ListText(texts) == <<"[">> \o Join(JoinSeparator, texts) \o <<"]">>

\* len(repr(v / unit)) of a float held in tenths or in hundredths
FloatTextSize(v, unit) ==
    Digits(v \div unit) + 1 + (IF unit = 100 /\ v % 10 # 0 THEN 2 ELSE 1)

\* repr(v / unit) of a float held in tenths or in hundredths
FloatText(v, unit) ==
    IntText(v \div unit) \o <<".">>
        \o (IF unit = 100 /\ v % 10 # 0 THEN Padded(v % 100, 2)
            ELSE <<Digit((v % unit) \div (unit \div 10))>>)

\* the bytes of a number that is an int where the code gives the int 0 and a
\* float, held in hundredths, elsewhere
NumberTextSize(is_int, v) == IF is_int THEN Digits(v) ELSE FloatTextSize(v, 100)

NumberText(is_int, v) == IF is_int THEN IntText(v) ELSE FloatText(v, 100)

\* the time of day of the clock at tick now; the clock starts at midnight of
\* the first of January 2024
TimeOfDay(now) ==
    LET seconds == now \div TicksPerSecond
    IN  [hour |-> seconds \div 3600, minute |-> (seconds \div 60) % 60,
         second |-> seconds % 60,
         microsecond |-> (now % TicksPerSecond) * (1000000 \div TicksPerSecond)]

\* strftime('%Y%m%d_%H%M%S') of the second a session_id stands for
SessionIdText(session_id) ==
    LET t == TimeOfDay(session_id * TicksPerSecond)
    IN  Chars("20240101_") \o Padded(t.hour, 2) \o Padded(t.minute, 2)
            \o Padded(t.second, 2)

\* a session_id in its quotes takes 17 bytes
SessionIdSize == Len(Quoted(SessionIdText(0)))

\* len(datetime.now().isoformat()), in quotes: isoformat leaves the fraction
\* out at a whole second
IsoformatSize(now) == IF now % TicksPerSecond = 0 THEN 21 ELSE 28

\* datetime.now().isoformat()
IsoformatText(now) ==
    LET t == TimeOfDay(now)
    IN  Chars("2024-01-01T") \o Padded(t.hour, 2) \o <<":">> \o Padded(t.minute, 2)
            \o <<":">> \o Padded(t.second, 2)
            \o (IF t.microsecond = 0 THEN <<>> ELSE <<".">> \o Padded(t.microsecond, 6))

\* the stat names in the order of the stats dict
StatNames == [r \in 1..Len(SCORING_RULES) |-> SCORING_RULES[r].stat_name]

\* the bytes of the members of a stats dict
RECURSIVE StatsMembersSize(_, _)
StatsMembersSize(st, names) ==
    IF names = {} THEN 0
    ELSE LET name == CHOOSE k \in names : TRUE
         IN  Keyed(name, Digits(st[name])) + StatsMembersSize(st, names \ {name})

\* the text of a stats dict
StatsText(st) ==
    DictText([r \in 1..Len(StatNames) |->
                 KeyedText(StatNames[r], IntText(st[StatNames[r]]))])

\* f"{session_id}_frame_{frame_num:04d}.jpg", the frame_image of a detection
FrameFileName(frame_image) ==
    SessionIdText(frame_image[1]) \o Chars("_frame_") \o ZeroFilled(frame_image[2], 4)
        \o Chars(".jpg")

\* the bytes of one detection of a stored session, an entry of
\* detection_details (lines 134-144)
DetectionTextSize(d) ==
    Enclosed(Keyed("timestamp", FloatTextSize(d.timestamp, 10))
                 + Keyed("frame", Digits(d.frame))
                 + Keyed("detected_action", Len(d.detected_action) + 2)
                 + Keyed("confidence", FloatTextSize(d.confidence, 100))
                 + Keyed("classified_as", Len(d.classified_as) + 2)
                 + Keyed("frame_image", Len(FrameFileName(d.frame_image)) + 2)
                 + Keyed("session_id", SessionIdSize), 7)

\* the text of one detection
DetectionText(d) ==
    DictText(<< KeyedText("timestamp", FloatText(d.timestamp, 10)),
                KeyedText("frame", IntText(d.frame)),
                KeyedText("detected_action", Quoted(d.detected_action)),
                KeyedText("confidence", FloatText(d.confidence, 100)),
                KeyedText("classified_as", Quoted(d.classified_as)),
                KeyedText("frame_image", Quoted(FrameFileName(d.frame_image))),
                KeyedText("session_id", Quoted(SessionIdText(d.session_id))) >>)

RECURSIVE DetectionsMembersSize(_)
DetectionsMembersSize(dets) ==
    IF dets = <<>> THEN 0
    ELSE DetectionTextSize(Head(dets)) + DetectionsMembersSize(Tail(dets))

\* the bytes of eval_data.  calculate_score gives the int 0 for a ratio whose
\* denominator is 0 (lines 138-149), a float otherwise; the stats accuracy of
\* an evaluation in the store was computed from the ground truth file
EvaluationTextSize(e) ==
    Enclosed(Keyed("evaluated_at", IsoformatSize(e.evaluated_at))
                 + Keyed("video_name", Len(e.video_name) + 2)
                 + Keyed("overall_score", FloatTextSize(e.overall_score, 100))
                 + Keyed("precision",
                         NumberTextSize(e.true_positives + e.false_positives = 0,
                                        e.precision))
                 + Keyed("recall",
                         NumberTextSize(e.true_positives + e.false_negatives = 0,
                                        e.recall))
                 + Keyed("f1_score", NumberTextSize(e.true_positives = 0, e.f1_score))
                 + Keyed("stats_accuracy",
                         NumberTextSize(DOMAIN gt_file.expected_stats = {},
                                        e.stats_accuracy))
                 + Keyed("true_positives", Digits(e.true_positives))
                 + Keyed("false_positives", Digits(e.false_positives))
                 + Keyed("false_negatives", Digits(e.false_negatives)), 10)

\* the text of eval_data
EvaluationText(e) ==
    DictText(<< KeyedText("evaluated_at", Quoted(IsoformatText(e.evaluated_at))),
                KeyedText("video_name", Quoted(Chars(e.video_name))),
                KeyedText("overall_score", FloatText(e.overall_score, 100)),
                KeyedText("precision",
                          NumberText(e.true_positives + e.false_positives = 0,
                                     e.precision)),
                KeyedText("recall",
                          NumberText(e.true_positives + e.false_negatives = 0,
                                     e.recall)),
                KeyedText("f1_score", NumberText(e.true_positives = 0, e.f1_score)),
                KeyedText("stats_accuracy",
                          NumberText(DOMAIN gt_file.expected_stats = {},
                                     e.stats_accuracy)),
                KeyedText("true_positives", IntText(e.true_positives)),
                KeyedText("false_positives", IntText(e.false_positives)),
                KeyedText("false_negatives", IntText(e.false_negatives)) >>)

\* the bytes of the value of a key of a record: the session_id is the string
\* strftime gave, the timestamp that of isoformat, the video_duration a float,
\* total_detections an int, classifier_used a string, the stats a dict, the
\* detections a list and the evaluation a dict
ValueSize(key, value) ==
    CASE key = "session_id" -> SessionIdSize
      [] key = "timestamp" -> IsoformatSize(value)
      [] key = "video_duration" -> FloatTextSize(value, 100)
      [] key = "total_detections" -> Digits(value)
      [] key = "classifier_used" -> Len(value) + 2
      [] key = "stats" -> Enclosed(StatsMembersSize(value, DOMAIN value),
                                   Cardinality(DOMAIN value))
      [] key = "detections" -> Enclosed(DetectionsMembersSize(value), Len(value))
      [] key = "evaluation" -> EvaluationTextSize(value)

\* the text json.dumps gives the value
ValueText(key, value) ==
    CASE key = "session_id" -> Quoted(SessionIdText(value))
      [] key = "timestamp" -> Quoted(IsoformatText(value))
      [] key = "video_duration" -> FloatText(value, 100)
      [] key = "total_detections" -> IntText(value)
      [] key = "classifier_used" -> Quoted(Chars(value))
      [] key = "stats" -> StatsText(value)
      [] key = "detections" ->
             ListText([i \in 1..Len(value) |-> DetectionText(value[i])])
      [] key = "evaluation" -> EvaluationText(value)

\* the bytes of the members of a dict, '"key": value' each
RECURSIVE MembersSize(_)
MembersSize(members) ==
    IF members = <<>> THEN 0
    ELSE Keyed(Head(members)[1], ValueSize(Head(members)[1], Head(members)[2]))
             + MembersSize(Tail(members))

\* the bytes of the line of an object: '{', the members with ', ' in between,
\* '}' and '\n'
LineSize(members) == Enclosed(MembersSize(members), Len(members)) + 1

\* the text of a line in segments: '{', one segment for every member, which
\* from the second member on starts with ', ', and '}\n'
Segments(members) ==
    <<[kind |-> "open", first |-> FALSE, member |-> <<>>]>>
        \o [i \in 1..Len(members) |->
               [kind |-> "member", first |-> i = 1, member |-> members[i]]]
        \o <<[kind |-> "close", first |-> FALSE, member |-> <<>>]>>

SegmentSize(s) ==
    CASE s.kind = "open" -> 1
      [] s.kind = "close" -> 2
      [] s.kind = "member" ->
             (IF s.first THEN 0 ELSE 2)
                 + Keyed(s.member[1], ValueSize(s.member[1], s.member[2]))

SegmentText(s) ==
    CASE s.kind = "open" -> <<"{">>
      [] s.kind = "close" -> <<"}", "\n">>
      [] s.kind = "member" ->
             (IF s.first THEN <<>> ELSE JoinSeparator)
                 \o KeyedText(s.member[1], ValueText(s.member[1], s.member[2]))

\* the segment that holds byte n of the text, bytes counted from 0, and the
\* place of the byte in it
RECURSIVE SegmentAt(_, _, _)
SegmentAfter(segments, i, n, size) ==
    IF n < size THEN [index |-> i, offset |-> n]
    ELSE SegmentAt(segments, i + 1, n - size)

SegmentAt(segments, i, n) == SegmentAfter(segments, i, n, SegmentSize(segments[i]))

\* the segments are those of an object
WellFormed(segments) ==
    /\ Len(segments) >= 2
    /\ segments[1].kind = "open"
    /\ segments[Len(segments)].kind = "close"
    /\ \A i \in 2..(Len(segments) - 1) :
           segments[i].kind = "member" /\ segments[i].first = (i = 2)

MembersOf(segments) == [i \in 1..(Len(segments) - 2) |-> segments[i + 1].member]

\* a text from its byte u on, and up to its byte u
From(text, u) == SubSeq(text, u + 1, Len(text))
UpTo(text, u) == SubSeq(text, 1, u)

\* the text of s from its byte u on is that of r from its byte v on
SameTail(s, u, r, v) ==
    \/ s = r /\ u = v
    \/ From(SegmentText(s), u) = From(SegmentText(r), v)

\* the text of s up to its byte u is that of r up to its byte v
SameHead(s, u, r, v) ==
    /\ u = v
    /\ \/ s = r
       \/ UpTo(SegmentText(s), u) = UpTo(SegmentText(r), v)

\* A run of bytes of the file: the bytes from, ..., to - 1 of the line of an
\* object with these members, a line of size bytes; or, with size 0, to NUL
\* bytes, which a write past the end of the file leaves before it.
FrontOf(members, size, to) == [members |-> members, size |-> size, from |-> 0, to |-> to]

WholeLine(members, size) == FrontOf(members, size, size)

LineOf(members) == WholeLine(members, LineSize(members))

Line(data) == LineOf(dumps(data))

Hole(n) == [members |-> <<>>, size |-> 0, from |-> 0, to |-> n]

\* bytes that are the front of no object
NoText == Hole(0)

PieceSize(p) == p.to - p.from

\* the run ends with the '\n' of its line
EndsLine(p) == p.size > 0 /\ p.to = p.size

RECURSIVE BytesSize(_)
BytesSize(bytes) ==
    IF bytes = <<>> THEN 0 ELSE PieceSize(Head(bytes)) + BytesSize(Tail(bytes))

\* the first n bytes
RECURSIVE TakeFront(_, _)
TakeFront(bytes, n) ==
    IF bytes = <<>> \/ n = 0 THEN <<>>
    ELSE IF PieceSize(Head(bytes)) <= n
    THEN <<Head(bytes)>> \o TakeFront(Tail(bytes), n - PieceSize(Head(bytes)))
    ELSE <<[Head(bytes) EXCEPT !.to = Head(bytes).from + n]>>

\* what follows the first n bytes
RECURSIVE DropFront(_, _)
DropFront(bytes, n) ==
    IF bytes = <<>> \/ n = 0 THEN bytes
    ELSE IF PieceSize(Head(bytes)) <= n
    THEN DropFront(Tail(bytes), n - PieceSize(Head(bytes)))
    ELSE IF Head(bytes).size = 0
    THEN <<Hole(PieceSize(Head(bytes)) - n)>> \o Tail(bytes)
    ELSE <<[Head(bytes) EXCEPT !.from = @ + n]>> \o Tail(bytes)

\* The front p of a line followed by the run q: the front of the line of an
\* object when the text is the front of the one line, when the segment at the
\* end of p goes on in q as it does in its own line, or when q starts in the
\* middle of a segment that began as p ends.  The other joins are no text:
\* with the records that are created and the updates that are made here
\* (StoreRecords, InitialLogs, StoreUpdates, OverlappingRecords,
\* OverlappingUpdates) none of them reads as an object.
FrontOfLine(members, to) == FrontOf(members, LineSize(members), to)

\* the segments kept of A, cut at a, and of B, cut at b
Kept(A, a, B, b) ==
    IF SameTail(A[a.index], a.offset, B[b.index], b.offset)
    THEN SubSeq(A, 1, a.index) \o SubSeq(B, b.index + 1, Len(B))
    ELSE IF SameHead(A[a.index], a.offset, B[b.index], b.offset)
    THEN SubSeq(A, 1, a.index - 1) \o SubSeq(B, b.index, Len(B))
    ELSE <<>>

GlueKept(kept, to) ==
    IF WellFormed(kept) THEN FrontOfLine(MembersOf(kept), to) ELSE NoText

GlueSegments(A, p_to, B, q_from, to) ==
    GlueKept(Kept(A, SegmentAt(A, 1, p_to), B, SegmentAt(B, 1, q_from)), to)

Glue(p, q) ==
    IF p = NoText \/ q.size = 0 THEN NoText
    ELSE IF p.members = q.members /\ p.to = q.from THEN [p EXCEPT !.to = q.to]
    ELSE GlueSegments(Segments(p.members), p.to, Segments(q.members), q.from,
                      p.to + PieceSize(q))

RECURSIVE GlueAll(_, _)
GlueAll(p, rest) ==
    IF rest = <<>> THEN p ELSE GlueAll(Glue(p, Head(rest)), Tail(rest))

\* the bytes of one line as the front of the line of an object, if they are
Glued(line) ==
    IF line = <<>> THEN NoText
    ELSE IF Head(line).size = 0 \/ Head(line).from # 0 THEN NoText
    ELSE GlueAll(Head(line), Tail(line))

\* the lines as json.loads gets them, each the front of the line of an
\* object or no text
Texts(lines) == [i \in 1..Len(lines) |-> Glued(lines[i])]

\* json.loads(line) returns: the line is the whole text of an object, with
\* its '\n' or, at the end of the file, without
IsJson(text) == text # NoText /\ text.to >= text.size - 1

\* json.loads(line) of such a line
Parsed(text) == loads(text.members)

Records(texts) == [k \in 1..Len(texts) |-> Parsed(texts[k])]

\* two runs next to each other in the file, as one run where they are one
JoinedPair(p, q) ==
    IF p.size = 0 /\ q.size = 0 THEN <<Hole(PieceSize(p) + PieceSize(q))>>
    ELSE IF p.size = 0 \/ q.size = 0 THEN <<p, q>>
    ELSE IF p.members = q.members /\ p.to = q.from THEN <<[p EXCEPT !.to = q.to]>>
    ELSE <<p, q>>

RECURSIVE JoinedOnto(_, _)
JoinedOnto(done, rest) ==
    IF rest = <<>> THEN done
    ELSE IF done = <<>> THEN JoinedOnto(<<Head(rest)>>, Tail(rest))
    ELSE JoinedOnto(SubSeq(done, 1, Len(done) - 1)
                        \o JoinedPair(done[Len(done)], Head(rest)),
                    Tail(rest))

Joined(bytes) == JoinedOnto(<<>>, bytes)

\* the bytes of a file after written is written at offset: over what is
\* there, and after NUL bytes when the file ends before offset
WriteAt(bytes, offset, written) ==
    Joined(TakeFront(bytes, offset)
               \o (IF offset > BytesSize(bytes)
                   THEN <<Hole(offset - BytesSize(bytes))>> ELSE <<>>)
               \o written
               \o DropFront(bytes, offset + BytesSize(written)))

\* the bytes cut at the '\n's: the lines, and what follows the last '\n'
RECURSIVE SplitLines(_, _, _)
SplitLines(bytes, current, lines) ==
    IF bytes = <<>> THEN [lines |-> lines, rest |-> current]
    ELSE IF EndsLine(Head(bytes))
    THEN SplitLines(Tail(bytes), <<>>, Append(lines, Append(current, Head(bytes))))
    ELSE SplitLines(Tail(bytes), Append(current, Head(bytes)), lines)

\* the lines of a file; the bytes after the last '\n' are a line too
WithRest(split) ==
    IF split.rest = <<>> THEN split.lines ELSE Append(split.lines, split.rest)

LinesOf(file) == WithRest(SplitLines(file.bytes, <<>>, <<>>))

\* the lines of a file as json.loads gets them
TextsOf(file) == Texts(LinesOf(file))

\* the lines written for a list of sessions
SessionLines(sessions) == [k \in 1..Len(sessions) |-> Line(sessions[k])]

\* a merge in which the keys the record already has keep their values
dict_update_keeping(data, updates) ==
    [k \in DOMAIN data \cup DOMAIN updates |->
        IF k \in DOMAIN data THEN data[k] ELSE updates[k]]

\* data.update(updates)
dict_update(data, updates) ==
    [k \in DOMAIN data \cup DOMAIN updates |->
        IF k \in DOMAIN updates THEN updates[k] ELSE data[k]]

\* os.path.exists(SESSIONS_FILE) is false
NoFile == [exists |-> FALSE, bytes |-> <<>>]

\* what get returns: None, or the record; or the error json.loads raises
NotFound == [found |-> FALSE, data |-> <<>>, raised |-> ""]
Found(data) == [found |-> TRUE, data |-> data, raised |-> ""]
Raised(error) == [found |-> FALSE, data |-> <<>>, raised |-> error]

\* a scan that keeps going and ends on the last line that matches
LastOf(hits) == CHOOSE i \in hits : \A j \in hits : j <= i

\* `for line in f:` returns at the first line that matches
FirstOf(hits) == CHOOSE i \in hits : \A j \in hits : i <= j

\* the size of the reads of the text layer, and the size at which it hands
\* its pending lines to the file
ChunkSize == 8192

\* a file object just opened: at the start of the file, nothing read
NewReader == [offset |-> 0, pending |-> <<>>]

\* One read of `for line in f`: the bytes the file has at the reader's
\* position, ChunkSize at most, cut into lines after what was left of the
\* read before.  When the file has none, what was left is the last line, and
\* when nothing was left the loop ends.
read_split(reader, chunk, split) ==
    IF chunk = <<>>
    THEN [lines |-> IF reader.pending = <<>> THEN <<>> ELSE <<reader.pending>>,
          eof |-> reader.pending = <<>>,
          reader |-> [offset |-> reader.offset, pending |-> <<>>]]
    ELSE [lines |-> split.lines, eof |-> FALSE,
          reader |-> [offset |-> reader.offset + BytesSize(chunk),
                      pending |-> split.rest]]

read_chunk(reader, chunk) ==
    read_split(reader, chunk, SplitLines(chunk, reader.pending, <<>>))

read_lines(file, reader) ==
    read_chunk(reader, TakeFront(DropFront(file.bytes, reader.offset), ChunkSize))

\* open(SESSIONS_FILE, 'a') makes the file when there is none
create_open(file) == [exists |-> TRUE, bytes |-> file.bytes]

\* the line of create reaches the end of the file, as it is by then
create_write(file, session_data) ==
    [exists |-> TRUE, bytes |-> Joined(Append(file.bytes, Line(session_data)))]

\* The lines one read serves to the loop of get (lines 29-32): json.loads
\* raises at the first line that is no JSON, and get returns the record of
\* the first line with the id; returned is false when the loop goes on.
get_texts(texts, torn, hits) ==
    IF hits # {}
    THEN [returned |-> TRUE, result |-> Found(Parsed(texts[FirstOf(hits)])),
          scanned |-> Records(SubSeq(texts, 1, FirstOf(hits)))]
    ELSE IF torn # {}
    THEN [returned |-> TRUE, result |-> Raised("JSONDecodeError"),
          scanned |-> Records(SubSeq(texts, 1, FirstOf(torn) - 1))]
    ELSE [returned |-> FALSE, result |-> NotFound, scanned |-> Records(texts)]

\* the places of the lines that are no JSON
Torn(texts) == {i \in 1..Len(texts) : ~IsJson(texts[i])}

\* the places, before the first line that is no JSON, of the records with the id
Hits(texts, torn, session_id) ==
    {i \in 1..Len(texts) :
        /\ \A j \in torn : i < j
        /\ Parsed(texts[i])["session_id"] = session_id}

get_torn(texts, torn, session_id) ==
    get_texts(texts, torn, Hits(texts, torn, session_id))

get_lines(texts, session_id) == get_torn(texts, Torn(texts), session_id)

get_scan(read, scan) ==
    [returned |-> scan.returned \/ read.eof, result |-> scan.result,
     scanned |-> scan.scanned, reader |-> read.reader]

get_served(read, session_id) ==
    get_scan(read, get_lines(Texts(read.lines), session_id))

\* one read of get and what its loop does with the lines
get_read(file, session_id, reader) ==
    get_served(read_lines(file, reader), session_id)

RECURSIVE get_loop(_, _, _)
get_next(file, session_id, step) ==
    IF step.returned THEN step.result ELSE get_loop(file, session_id, step.reader)

get_loop(file, session_id, reader) ==
    get_next(file, session_id, get_read(file, session_id, reader))

\* SessionStorage.get(session_id) with nothing in between
get(file, session_id) ==
    IF ~file.exists THEN NotFound ELSE get_loop(file, session_id, NewReader)

\* an update that merges into the first record with the id only
update_lines_first(records, session_id, updates) ==
    LET hits == {i \in 1..Len(records) : records[i]["session_id"] = session_id}
    IN  [i \in 1..Len(records) |->
            IF i \in hits /\ i = FirstOf(hits)
            THEN dict_update(records[i], updates)
            ELSE records[i]]

\* the loop of update (lines 54-58) over lines that are JSON: what it appends
\* to sessions
update_lines(records, session_id, updates) ==
    [i \in 1..Len(records) |->
        IF records[i]["session_id"] = session_id
        THEN dict_update(records[i], updates)
        ELSE records[i]]

\* one read of update and what its loop does with the lines: json.loads
\* raises at a line that is no JSON
update_texts(read, texts, session_id, updates) ==
    IF Torn(texts) # {}
    THEN [raised |-> "JSONDecodeError", eof |-> FALSE, scanned |-> <<>>,
          sessions |-> <<>>, reader |-> read.reader]
    ELSE [raised |-> "", eof |-> read.eof, scanned |-> Records(texts),
          sessions |-> update_lines(Records(texts), session_id, updates),
          reader |-> read.reader]

update_served(read, session_id, updates) ==
    update_texts(read, Texts(read.lines), session_id, updates)

update_read(file, session_id, updates, reader) ==
    update_served(read_lines(file, reader), session_id, updates)

\* open(SESSIONS_FILE, 'w') empties the file
update_open(file) == [exists |-> TRUE, bytes |-> <<>>]

\* The writes of a file object on which these lines are written and which is
\* then closed: the pending lines go to the file before a line that would
\* take them past ChunkSize, and once they have reached ChunkSize; what is
\* pending at the end goes when the file is closed.
RECURSIVE WritesFrom(_, _, _)
WritesFrom(lines, pending, size) ==
    IF lines = <<>> THEN (IF pending = <<>> THEN <<>> ELSE <<pending>>)
    ELSE IF pending # <<>> /\ size + PieceSize(Head(lines)) > ChunkSize
    THEN <<pending>> \o WritesFrom(lines, <<>>, 0)
    ELSE IF size + PieceSize(Head(lines)) >= ChunkSize
    THEN <<Append(pending, Head(lines))>> \o WritesFrom(Tail(lines), <<>>, 0)
    ELSE WritesFrom(Tail(lines), Append(pending, Head(lines)),
                    size + PieceSize(Head(lines)))

Writes(sessions) == WritesFrom(SessionLines(sessions), <<>>, 0)

\* the bytes of the first n writes
RECURSIVE Written(_, _)
Written(writes, n) ==
    IF n = 0 THEN <<>> ELSE Written(writes, n - 1) \o writes[n]

\* a write that leaves its last line out
update_write_truncated(file, offset, lines) ==
    [exists |-> TRUE,
     bytes |-> WriteAt(file.bytes, offset, SubSeq(lines, 1, Len(lines) - 1))]

\* one write of update: the lines go to the file at the position of update's
\* file object, over what is there by then
update_write(file, offset, lines) ==
    [exists |-> TRUE, bytes |-> WriteAt(file.bytes, offset, lines)]

RECURSIVE update_loop(_, _, _, _, _)
update_next(file, session_id, updates, sessions, step) ==
    IF step.raised # "" THEN [raised |-> step.raised, sessions |-> <<>>]
    ELSE IF step.eof THEN [raised |-> "", sessions |-> sessions]
    ELSE update_loop(file, session_id, updates, step.reader, sessions \o step.sessions)

update_loop(file, session_id, updates, reader, sessions) ==
    update_next(file, session_id, updates, sessions,
                update_read(file, session_id, updates, reader))

RECURSIVE write_loop(_, _, _)
write_loop(file, writes, n) ==
    IF n > Len(writes) THEN file
    ELSE write_loop(update_write(file, BytesSize(Written(writes, n - 1)), writes[n]),
                    writes, n + 1)

\* SessionStorage.update(session_id, updates) with nothing in between: it
\* returns when there is no file and raises, the file as it was, at a line
\* that is no JSON
update_rewrite(file, read) ==
    IF read.raised # "" THEN file
    ELSE write_loop(update_open(file), Writes(read.sessions), 1)

update(file, session_id, updates) ==
    IF ~file.exists THEN file
    ELSE update_rewrite(file, update_loop(file, session_id, updates, NewReader, <<>>))

\* SessionStorage.create(session_data) with nothing in between
create(file, session_data) == create_write(create_open(file), session_data)

Writers == {"writer1", "writer2"}

\* the request that runs run_evaluation
Evaluator == "run_evaluation"

Callers == Writers \cup {Evaluator}

\* session ids: the seconds 00:00:01 and 00:00:02 of the first day
StoredIds == {1, 2}

\* the records the store's callers create: their lines take 57, 57 and 58
\* bytes
StoreRecords ==
    {[session_id |-> 1, total_detections |-> 0],
     [session_id |-> 2, total_detections |-> 1],
     [session_id |-> 1, total_detections |-> 10]}

\* a record whose line and the line after it do not go into one read
LongRecord == [session_id |-> 1, total_detections |-> 0, classifier_used |-> LongName]

\* the logs a deployment starts with: none, one record, or the long record
InitialLogs ==
    {<<>>, <<[session_id |-> 1, total_detections |-> 0]>>, <<LongRecord>>}

\* the file after these records have been created one after the other
RECURSIVE FileOf(_)
FileOf(log) ==
    IF log = <<>> THEN NoFile
    ELSE create(FileOf(SubSeq(log, 1, Len(log) - 1)), log[Len(log)])

\* eval_data of an evaluation without expected events, of a session without
\* detections
EvaluationOfNothing ==
    [evaluated_at |-> 1, video_name |-> "trim.mp4", overall_score |-> 2000,
     precision |-> 0, recall |-> 0, f1_score |-> 0, stats_accuracy |-> 0,
     true_positives |-> 0, false_positives |-> 0, false_negatives |-> 0]

\* eval_data of an evaluation without expected events, of a session with one
\* detection
EvaluationOfOne ==
    [evaluated_at |-> 2, video_name |-> "trim.mp4", overall_score |-> 2000,
     precision |-> 0, recall |-> 0, f1_score |-> 0, stats_accuracy |-> 0,
     true_positives |-> 0, false_positives |-> 1, false_negatives |-> 0]

\* the updates the store's callers make
StoreUpdates ==
    {[evaluation |-> EvaluationOfNothing],
     [total_detections |-> 2, evaluation |-> EvaluationOfOne]}

\* what is kept of the last get that returned or raised: its caller, its
\* argument, what it returned, the records its loop went through, and the
\* file when the call started and when it ended
NoGet ==
    [caller |-> "", session_id |-> 0, result |-> NotFound, scanned |-> <<>>,
     before |-> NoFile, after |-> NoFile]

\* no call in progress.  Of a call in progress: the arguments, the file object
\* it reads with, the records its loop has gone through, the file when the
\* call started, when update's loop ended and before update opened it for
\* writing, the number of writes update has made, and whether the file held,
\* at each of them, what update had written so far and nothing else
NoArgs ==
    [session_data |-> EmptyMap, session_id |-> 0, updates |-> EmptyMap,
     reader |-> NewReader, scanned |-> <<>>, started |-> NoFile, read |-> NoFile,
     before |-> NoFile, done |-> 0, clean |-> TRUE]

\* what is kept of the last update that returned or raised
NoRewrite ==
    [caller |-> "", session_id |-> 0, updates |-> EmptyMap, outcome |-> "",
     scanned |-> <<>>, sessions |-> <<>>, started |-> NoFile, read |-> NoFile,
     before |-> NoFile, last |-> NoFile, after |-> NoFile, clean |-> TRUE]

StoreIdle ==
    /\ sessions_file = NoFile
    /\ ss_concurrent = FALSE
    /\ ss_pc = [c \in Callers |-> "idle"]
    /\ ss_sessions = [c \in Callers |-> <<>>]
    /\ ss_args = [c \in Callers |-> NoArgs]
    /\ ss_got = NoGet
    /\ ss_rewrite = NoRewrite
    /\ ss_created = <<>>
    /\ ss_ops = 0

\* a deployment with one of the initial logs; the callers either wait for one
\* call to end before the next starts or do not
InputsStorage ==
    /\ \E log \in InitialLogs :
           /\ sessions_file = FileOf(log)
           /\ ss_created = log
    /\ ss_concurrent \in BOOLEAN
    /\ ss_pc = [c \in Callers |-> "idle"]
    /\ ss_sessions = [c \in Callers |-> <<>>]
    /\ ss_args = [c \in Callers |-> NoArgs]
    /\ ss_got = NoGet
    /\ ss_rewrite = NoRewrite
    /\ ss_ops = 0

\* create's open(SESSIONS_FILE, 'a') (line 20)
CreateOpens(c, session_data) ==
    /\ ss_pc[c] = "idle"
    /\ sessions_file' = create_open(sessions_file)
    /\ ss_pc' = [ss_pc EXCEPT ![c] = "append"]
    /\ ss_args' = [ss_args EXCEPT ![c] = [NoArgs EXCEPT !.session_data = session_data]]
    /\ ss_created' = Append(ss_created, session_data)
    /\ UNCHANGED <<ss_sessions, ss_got, ss_rewrite>>

\* the end of create's with block (line 21), where its line reaches the file
CreateWrites(c) ==
    /\ ss_pc[c] = "append"
    /\ sessions_file' = create_write(sessions_file, ss_args[c].session_data)
    /\ ss_pc' = [ss_pc EXCEPT ![c] = "idle"]
    /\ ss_args' = [ss_args EXCEPT ![c] = NoArgs]
    /\ UNCHANGED <<ss_sessions, ss_got, ss_rewrite, ss_created>>

\* get's os.path.exists (lines 26-27): None when there is no file
GetTests(c, session_id) ==
    /\ ss_pc[c] = "idle"
    /\ IF ~sessions_file.exists
       THEN /\ ss_got' = [caller |-> c, session_id |-> session_id, result |-> NotFound,
                          scanned |-> <<>>, before |-> sessions_file,
                          after |-> sessions_file]
            /\ UNCHANGED <<ss_pc, ss_args>>
       ELSE /\ ss_pc' = [ss_pc EXCEPT ![c] = "get_open"]
            /\ ss_args' = [ss_args EXCEPT ![c] =
                              [NoArgs EXCEPT !.session_id = session_id,
                                             !.started = sessions_file]]
            /\ UNCHANGED ss_got
    /\ UNCHANGED <<sessions_file, ss_sessions, ss_rewrite, ss_created>>

\* get's open(SESSIONS_FILE, 'r') (line 28)
GetOpens(c) ==
    /\ ss_pc[c] = "get_open"
    /\ ss_pc' = [ss_pc EXCEPT ![c] = "get_read"]
    /\ ss_args' = [ss_args EXCEPT ![c].reader = NewReader]
    /\ UNCHANGED <<sessions_file, ss_sessions, ss_got, ss_rewrite, ss_created>>

\* what get does after a read: it returns or raises, or its loop goes on
GetGoesOn(c, step) ==
    /\ IF step.returned
       THEN /\ ss_got' = [caller |-> c, session_id |-> ss_args[c].session_id,
                          result |-> step.result,
                          scanned |-> ss_args[c].scanned \o step.scanned,
                          before |-> ss_args[c].started, after |-> sessions_file]
            /\ ss_pc' = [ss_pc EXCEPT ![c] = "idle"]
            /\ ss_args' = [ss_args EXCEPT ![c] = NoArgs]
       ELSE /\ ss_args' = [ss_args EXCEPT ![c].reader = step.reader,
                                          ![c].scanned = @ \o step.scanned]
            /\ UNCHANGED <<ss_pc, ss_got>>
    /\ UNCHANGED <<sessions_file, ss_sessions, ss_rewrite, ss_created>>

\* one read of get's loop (lines 29-33) and the lines it serves
GetReads(c) ==
    /\ ss_pc[c] = "get_read"
    /\ GetGoesOn(c, get_read(sessions_file, ss_args[c].session_id, ss_args[c].reader))

\* the record kept of an update that ends
Rewrite(c, outcome, sessions, last, after, clean) ==
    [caller |-> c, session_id |-> ss_args[c].session_id,
     updates |-> ss_args[c].updates, outcome |-> outcome,
     scanned |-> ss_args[c].scanned, sessions |-> sessions,
     started |-> ss_args[c].started, read |-> ss_args[c].read,
     before |-> ss_args[c].before, last |-> last, after |-> after, clean |-> clean]

\* update's os.path.exists (lines 49-50): it returns when there is no file
UpdateTests(c, session_id, updates) ==
    /\ ss_pc[c] = "idle"
    /\ IF ~sessions_file.exists
       THEN /\ ss_rewrite' =
                   [caller |-> c, session_id |-> session_id, updates |-> updates,
                    outcome |-> "no_file", scanned |-> <<>>, sessions |-> <<>>,
                    started |-> sessions_file, read |-> sessions_file,
                    before |-> sessions_file, last |-> sessions_file,
                    after |-> sessions_file, clean |-> TRUE]
            /\ UNCHANGED <<ss_pc, ss_args>>
       ELSE /\ ss_pc' = [ss_pc EXCEPT ![c] = "update_open"]
            /\ ss_args' = [ss_args EXCEPT ![c] =
                              [NoArgs EXCEPT !.session_id = session_id,
                                             !.updates = updates,
                                             !.started = sessions_file]]
            /\ UNCHANGED ss_rewrite
    /\ UNCHANGED <<sessions_file, ss_sessions, ss_got, ss_created>>

\* update's open(SESSIONS_FILE, 'r') (line 53)
UpdateOpensToRead(c) ==
    /\ ss_pc[c] = "update_open"
    /\ ss_pc' = [ss_pc EXCEPT ![c] = "update_read"]
    /\ ss_args' = [ss_args EXCEPT ![c].reader = NewReader]
    /\ UNCHANGED <<sessions_file, ss_sessions, ss_got, ss_rewrite, ss_created>>

\* what update does after a read: json.loads raises, the loop ends, or it
\* goes on
UpdateGoesOn(c, step) ==
    /\ IF step.raised # ""
       THEN /\ ss_rewrite' = [Rewrite(c, "raised", <<>>, sessions_file, sessions_file,
                                      TRUE)
                                 EXCEPT !.read = sessions_file,
                                        !.before = sessions_file]
            /\ ss_pc' = [ss_pc EXCEPT ![c] = "idle"]
            /\ ss_sessions' = [ss_sessions EXCEPT ![c] = <<>>]
            /\ ss_args' = [ss_args EXCEPT ![c] = NoArgs]
       ELSE IF step.eof
       THEN /\ ss_pc' = [ss_pc EXCEPT ![c] = "rewrite"]
            /\ ss_args' = [ss_args EXCEPT ![c].read = sessions_file]
            /\ UNCHANGED <<ss_sessions, ss_rewrite>>
       ELSE /\ ss_sessions' = [ss_sessions EXCEPT ![c] = @ \o step.sessions]
            /\ ss_args' = [ss_args EXCEPT ![c].reader = step.reader,
                                          ![c].scanned = @ \o step.scanned]
            /\ UNCHANGED <<ss_pc, ss_rewrite>>
    /\ UNCHANGED <<sessions_file, ss_got, ss_created>>

\* one read of update's loop (lines 54-58) and the lines it serves
UpdateReads(c) ==
    /\ ss_pc[c] = "update_read"
    /\ UpdateGoesOn(c, update_read(sessions_file, ss_args[c].session_id,
                                   ss_args[c].updates, ss_args[c].reader))

\* update's open(SESSIONS_FILE, 'w') (line 60); with no session to write the
\* with block ends without a write
UpdateOpensToWrite(c) ==
    /\ ss_pc[c] = "rewrite"
    /\ sessions_file' = update_open(sessions_file)
    /\ IF ss_sessions[c] = <<>>
       THEN /\ ss_rewrite' = [Rewrite(c, "written", <<>>, sessions_file,
                                      sessions_file', TRUE)
                                 EXCEPT !.before = sessions_file]
            /\ ss_pc' = [ss_pc EXCEPT ![c] = "idle"]
            /\ ss_args' = [ss_args EXCEPT ![c] = NoArgs]
       ELSE /\ ss_pc' = [ss_pc EXCEPT ![c] = "write"]
            /\ ss_args' = [ss_args EXCEPT ![c].before = sessions_file]
            /\ UNCHANGED ss_rewrite
    /\ UNCHANGED <<ss_sessions, ss_got, ss_created>>

\* what update does after a write of the lines at offset: the with block has
\* ended and update returns, or more lines are to be written
UpdateWritesAt(c, writes, offset, clean) ==
    /\ sessions_file' = update_write(sessions_file, offset, writes[ss_args[c].done + 1])
    /\ IF ss_args[c].done + 1 = Len(writes)
       THEN /\ ss_rewrite' =
                   Rewrite(c, "written", ss_sessions[c], sessions_file,
                           sessions_file', clean)
            /\ ss_pc' = [ss_pc EXCEPT ![c] = "idle"]
            /\ ss_sessions' = [ss_sessions EXCEPT ![c] = <<>>]
            /\ ss_args' = [ss_args EXCEPT ![c] = NoArgs]
       ELSE /\ ss_args' = [ss_args EXCEPT ![c].done = @ + 1, ![c].clean = clean]
            /\ UNCHANGED <<ss_pc, ss_sessions, ss_rewrite>>
    /\ UNCHANGED <<ss_got, ss_created>>

\* one write of update's with block (lines 60-62): the lines pending go to
\* the file at the position the writes before have reached
UpdateWritesAfter(c, writes, written) ==
    UpdateWritesAt(c, writes, BytesSize(written),
                   ss_args[c].clean /\ sessions_file.bytes = written)

UpdateWritesOf(c, writes) ==
    UpdateWritesAfter(c, writes, Written(writes, ss_args[c].done))

UpdateWrites(c) ==
    /\ ss_pc[c] = "write"
    /\ UpdateWritesOf(c, Writes(ss_sessions[c]))

\* the writers in the order in which they take the calls
FirstWriter == "writer1"

\* a call may start: always when the callers overlap, else when no call is
\* in progress; the writers are alike, and a call goes to the first writer
\* unless that one is in a call
MayStart(w) ==
    /\ ss_pc[w] = "idle"
    /\ ss_ops < MaxStorageOps
    /\ ss_concurrent \/ \A c \in Callers : ss_pc[c] = "idle"
    /\ w # FirstWriter => ss_pc[FirstWriter] # "idle"

\* a call starts
Starts == ss_ops' = ss_ops + 1 /\ UNCHANGED ss_concurrent

\* a call goes on
GoesOn == UNCHANGED <<ss_concurrent, ss_ops>>

CreateOpen(w, session_data) ==
    MayStart(w) /\ CreateOpens(w, session_data) /\ Starts /\ UNCHANGED ss_others

CreateWrite(w) == CreateWrites(w) /\ GoesOn /\ UNCHANGED ss_others

GetExists(w, session_id) ==
    MayStart(w) /\ GetTests(w, session_id) /\ Starts /\ UNCHANGED ss_others

GetOpen(w) == GetOpens(w) /\ GoesOn /\ UNCHANGED ss_others

GetRead(w) == GetReads(w) /\ GoesOn /\ UNCHANGED ss_others

UpdateExists(w, session_id, updates) ==
    MayStart(w) /\ UpdateTests(w, session_id, updates) /\ Starts /\ UNCHANGED ss_others

UpdateOpenRead(w) == UpdateOpensToRead(w) /\ GoesOn /\ UNCHANGED ss_others

UpdateRead(w) == UpdateReads(w) /\ GoesOn /\ UNCHANGED ss_others

UpdateOpen(w) == UpdateOpensToWrite(w) /\ GoesOn /\ UNCHANGED ss_others

UpdateWrite(w) == UpdateWrites(w) /\ GoesOn /\ UNCHANGED ss_others

\* the places of the lines of a file that are no JSON
TornPlaces(file) == Torn(TextsOf(file))

\* the records of a file whose lines are JSON, in file order
RecordsOf(file) == Records(TextsOf(file))

\* the records of the lines of the log that are JSON, in file order
LogRecords == Records(SelectSeq(TextsOf(sessions_file), IsJson))

----------------------------------------------------------------------------
(* The analysis pipeline: analyze_video of services/video_analysis_service.py, *)
(* one run after the other.  A run obtains its classifier from the          *)
(* ClassifierFactory of the same file (the "service" factory above), runs   *)
(* extract_clips (the extraction model above), classifies the clips one by  *)
(* one, scores them with calculate_stats and builds the session record.     *)
(* The wall clock advances in ticks of 1/TicksPerSecond.                    *)

\* the request on which a pipeline run calls the factory
PipelineRequest == "request1"

\* the classifier_type arguments of the runs
PipelineClassifiers == RegisteredIds

\* config.py: CLIP_DURATION 2.0 s in halves of a second, CLIP_OVERLAP 0.5 as a
\* numerator over 2^OverlapBits, MAX_CLIPS
CLIP_DURATION == 4
CLIP_OVERLAP == Pow2(OverlapBits - 1)
MAX_CLIPS == 30

\* the video sources given to the pipeline: up to MaxPipelineFrames frames, at
\* one frame per second
PipelineFps == 1

\* the ClassificationResults a classifier hands back to the pipeline: the
\* error sentinel, a confident label, and a label exactly at the detection
\* threshold
PipelineResults ==
    { ClassificationResult(ActionError, 0)
    , ClassificationResult(ActionShooting, 90)
    , ClassificationResult(ActionPassing, CONFIDENCE_THRESHOLD_DETECTION) }

\* the classes that define get_basketball_stats_mapping
HasStatsMapping(cls) == cls = "yolo"

\* datetime.now().strftime('%Y%m%d_%H%M%S'): the time cut to whole seconds
session_id_at(now) == now \div TicksPerSecond

\* if result.action and result.confidence > config.CONFIDENCE_THRESHOLD_DETECTION
IsDetection(res) ==
    /\ res.action # <<>>
    /\ ExceedsThreshold(res.confidence, CONFIDENCE_THRESHOLD_DETECTION)

\* the entry of detection_details for a scored detection
DetectionDetail(det, session_id) ==
    [ timestamp |-> Round2(det.timestamp)
    , frame |-> det.frame
    , detected_action |-> det.action
    , confidence |-> det.confidence
    , classified_as |-> det.classified_as
    , frame_image |-> det.frame_image
    , session_id |-> session_id ]

\* classifier.name: the name property of the class of the instance
ClassifierName(cls) ==
    CASE cls = "videomae" -> "VideoMAE"
      [] cls = "yolo" -> "YOLO Ball Tracking"
      [] cls = "timesformer" -> "TimesFormer"
      [] cls = "x3d" -> "X3D"
      [] cls = "clip" -> "CLIP Zero-Shot"
      [] cls = "vivit" -> "ViViT"
      [] cls = "slowfast" -> "SlowFast"

\* session_data, lines 147-155
SessionData(session_id, now, classifier_name, st, details) ==
    [ session_id |-> session_id
    , timestamp |-> now
    , video_duration |->
          IF fps > 0 THEN Round2(Frac(Len(clips) * clip_duration, 2 * fps)) ELSE 0
    , total_detections |-> Len(details)
    , classifier_used |-> classifier_name
    , stats |-> st
    , detections |-> details ]

PipelineIdle ==
    /\ clock = 0
    /\ pl_pc = "idle"
    /\ pl_classifier_type = "videomae"
    /\ pl_create_no = 0
    /\ pl_session_id = 0
    /\ pl_mapping = DEFAULT_ACTION_KEYWORDS
    /\ pl_i = 0
    /\ pl_results = <<>>
    /\ pl_detected = <<>>
    /\ pl_error = ""
    /\ pl_runs = 0
    /\ pl_attribute = ""
    /\ pl_built = <<>>

\* the wall clock moves on
Tick ==
    /\ clock < MaxClock
    /\ clock' = clock + 1
    /\ UNCHANGED <<pl_pc, pl_classifier_type, pl_create_no, pl_session_id, pl_mapping,
                   pl_i, pl_results, pl_detected, pl_error, pl_runs, pl_attribute, pl_built>>
    /\ UNCHANGED <<ex_vars, fa_vars>>
    /\ UNCHANGED pl_others

\* analyze_video(video_path, classifier_type) is entered
EnterAnalyzeVideo(classifier_type) ==
    /\ pl_pc' = "create"
    /\ pl_classifier_type' = classifier_type
    /\ pl_create_no' = fa_calls
    /\ pl_runs' = pl_runs + 1
    /\ pl_i' = 0 /\ pl_results' = <<>> /\ pl_detected' = <<>>
    /\ pl_error' = "" /\ pl_attribute' = ""
    /\ pl_session_id' = 0 /\ pl_mapping' = DEFAULT_ACTION_KEYWORDS
    \* the locals of the last extract_clips are gone
    /\ ex_pc' = "idle"
    /\ fps' = 0 /\ clip_duration' = 0 /\ clip_overlap' = 0 /\ max_clips' = 0
    /\ total_frames' = 0 /\ frames_per_clip' = 0 /\ stride' = 0
    /\ clips' = <<>> /\ frames_buffer' = <<>> /\ frame_count' = 0
    /\ UNCHANGED <<clock, fa_vars, pl_built>>
    /\ UNCHANGED pl_others

\* the first run of the process
AnalyzeVideo(classifier_type) ==
    /\ pl_pc = "idle"
    /\ EnterAnalyzeVideo(classifier_type)

\* a later run, after the run before it has returned or raised
AnalyzeVideoAgain(classifier_type) ==
    /\ pl_pc \in {"returned", "raised"}
    /\ pl_runs < MaxRuns
    /\ EnterAnalyzeVideo(classifier_type)

\* classifier = ClassifierFactory.create(classifier_type): the call ...
CreateClassifier ==
    /\ pl_pc = "create"
    /\ fa_calls = pl_create_no
    /\ Call(PipelineRequest, pl_classifier_type)

\* ... and the factory's statements
CreateClassifierStep ==
    /\ pl_pc = "create"
    /\ \/ CheckCached(PipelineRequest)
       \/ Construct(PipelineRequest)
       \/ Store(PipelineRequest)
       \/ CallInitialize(PipelineRequest)
       \/ FactoryInitialize(PipelineRequest)
       \/ Return(PipelineRequest)

\* the classifier create has returned
Classifier == fa_outcome[PipelineRequest].instance

\* a pipeline that goes on whatever is_ready() says
ReadyUnchecked(instance) == TRUE

\* classifier.is_ready()
Ready(instance) == instance \in fa_ready

\* if not classifier.is_ready(): raise RuntimeError(...); an exception of
\* create itself propagates
CheckReady ==
    /\ pl_pc = "create"
    /\ fa_calls > pl_create_no
    /\ fa_pc[PipelineRequest] = "idle"
    /\ IF fa_outcome[PipelineRequest].kind # "returned"
       THEN pl_pc' = "raised" /\ pl_error' = fa_outcome[PipelineRequest].kind
       ELSE IF ~Ready(Classifier)
       THEN pl_pc' = "raised" /\ pl_error' = "RuntimeError"
       ELSE pl_pc' = "extract" /\ UNCHANGED pl_error
    /\ UNCHANGED <<clock, pl_classifier_type, pl_create_no, pl_session_id, pl_mapping,
                   pl_i, pl_results, pl_detected, pl_runs, pl_attribute, pl_built>>
    /\ UNCHANGED <<ex_vars, fa_vars>>
    /\ UNCHANGED pl_others

\* clips, fps = video_extraction_service.extract_clips(video_path): the call,
\* on a source of n frames ...
ExtractClips(n) ==
    /\ pl_pc = "extract"
    /\ pl_pc' = "extracting"
    /\ ex_pc' = "loop"
    /\ fps' = PipelineFps
    /\ clip_duration' = CLIP_DURATION
    /\ clip_overlap' = CLIP_OVERLAP
    /\ max_clips' = MAX_CLIPS
    /\ total_frames' = n
    /\ frames_per_clip' = FramesPerClip(PipelineFps, CLIP_DURATION)
    /\ stride' = Stride(FramesPerClip(PipelineFps, CLIP_DURATION), CLIP_OVERLAP)
    /\ clips' = <<>> /\ frames_buffer' = <<>> /\ frame_count' = 0
    /\ UNCHANGED <<clock, pl_classifier_type, pl_create_no, pl_session_id, pl_mapping,
                   pl_i, pl_results, pl_detected, pl_error, pl_runs, pl_attribute, pl_built>>
    /\ UNCHANGED fa_vars
    /\ UNCHANGED pl_others

\* ... and its loop
ExtractClipsStep ==
    /\ pl_pc = "extracting"
    /\ (ReadFrame \/ EndOfSource \/ ClipLimitReached)

\* session_id = datetime.now().strftime('%Y%m%d_%H%M%S')
NewSessionId ==
    /\ pl_pc = "extracting"
    /\ ex_pc = "done"
    /\ pl_pc' = "mapping"
    /\ pl_session_id' = session_id_at(clock)
    /\ UNCHANGED <<clock, pl_classifier_type, pl_create_no, pl_mapping,
                   pl_i, pl_results, pl_detected, pl_error, pl_runs, pl_attribute, pl_built>>
    /\ UNCHANGED <<ex_vars, fa_vars>>
    /\ UNCHANGED pl_others

\* basketball_actions = classifier.get_basketball_stats_mapping(), an
\* AttributeError when the classifier's class does not define it
GetStatsMapping ==
    /\ pl_pc = "mapping"
    /\ IF HasStatsMapping(Classifier.cls)
       THEN /\ pl_pc' = "classify"
            /\ pl_mapping' = get_basketball_stats_mapping
            /\ UNCHANGED <<pl_error, pl_attribute>>
       ELSE /\ pl_pc' = "raised"
            /\ pl_error' = "AttributeError"
            /\ pl_attribute' = "get_basketball_stats_mapping"
            /\ UNCHANGED pl_mapping
    /\ UNCHANGED <<clock, pl_classifier_type, pl_create_no, pl_session_id,
                   pl_i, pl_results, pl_detected, pl_runs, pl_built>>
    /\ UNCHANGED <<ex_vars, fa_vars>>
    /\ UNCHANGED pl_others

\* one round of `for i, (start_frame, clip_frames) in enumerate(clips)`, the
\* classifier returning res: a result that passes the test of line 112 takes
\* the round to storage.create_frame (line 118), an attribute the module
\* storage does not have, so the run ends there with nothing appended to
\* detected_actions
ClassifyClip(res) ==
    /\ pl_pc = "classify"
    /\ pl_i < Len(clips)
    /\ pl_i' = pl_i + 1
    /\ pl_results' = Append(pl_results, res)
    /\ IF IsDetection(res)
       THEN /\ pl_pc' = "raised"
            /\ pl_error' = "AttributeError"
            /\ pl_attribute' = "create_frame"
       ELSE UNCHANGED <<pl_pc, pl_error, pl_attribute>>
    /\ UNCHANGED <<clock, pl_classifier_type, pl_create_no, pl_session_id,
                   pl_mapping, pl_detected, pl_runs, pl_built>>
    /\ UNCHANGED <<ex_vars, fa_vars>>
    /\ UNCHANGED pl_others

\* lines 130-156, after the loop: calculate_stats, detection_details and
\* session_data are built, and storage.create_session(session_data) (line
\* 156) asks the module storage for an attribute it does not have, so the
\* run ends in an AttributeError and the sessions file is not touched
SaveSession ==
    /\ pl_pc = "classify"
    /\ pl_i = Len(clips)
    /\ LET scored == calculate_stats(pl_detected, pl_mapping)
           details == [k \in 1..Len(scored.detections) |->
                          DetectionDetail(scored.detections[k], pl_session_id)]
           session_data == SessionData(pl_session_id, clock, ClassifierName(Classifier.cls),
                                       scored.stats, details)
       IN  pl_built' = Append(pl_built, session_data)
    /\ pl_pc' = "raised"
    /\ pl_error' = "AttributeError"
    /\ pl_attribute' = "create_session"
    /\ UNCHANGED <<clock, pl_classifier_type, pl_create_no, pl_session_id, pl_mapping,
                   pl_i, pl_results, pl_detected, pl_runs>>
    /\ UNCHANGED <<ex_vars, fa_vars>>
    /\ UNCHANGED pl_others

----------------------------------------------------------------------------
(* run_evaluation of services/results_evaluation_service.py: the ground     *)
(* truth file /app/services/expected_results.json and the session store in, *)
(* a result dict out, the evaluation attached to the stored session.  The  *)
(* call is taken in its steps: the load of the ground truth, the steps of  *)
(* the SessionStorage.get that loads the session, and the steps of the      *)
(* SessionStorage.update that saves the evaluation; there is no lock, and   *)
(* the storage operations of other requests come in between.                *)

\* the videos evaluation is requested for; the ground truth file, when there
\* is one, was written for AuthoredVideo
AuthoredVideo == "trim.mp4"
VideoNames == {"trim.mp4", "other.mp4"}

\* os.path.exists(gt_path) is false
NoGroundTruthFile ==
    [exists |-> FALSE, video_name |-> "",
     expected_detections |-> <<>>, expected_stats |-> EmptyMap]

NoEvaluation == [success |-> FALSE, error |-> "none", score |-> NoScore]

\* load_ground_truth(video_name): the one file, whatever video_name is
load_ground_truth(file, video_name) ==
    IF ~file.exists THEN [raised |-> "FileNotFoundError", value |-> file]
    ELSE [raised |-> "", value |-> file]

\* load_session_results(session_id), lines 51-56, once SessionStorage.get has
\* returned or raised
load_session_results(session) ==
    IF session.raised # "" THEN [raised |-> session.raised, value |-> session]
    ELSE IF ~session.found THEN [raised |-> "FileNotFoundError", value |-> session]
    ELSE [raised |-> "", value |-> session]

\* eval_data of save_evaluation_results
EvalData(gt, sc, now) ==
    [ evaluated_at |-> now
    , video_name |-> gt.video_name
    , overall_score |-> sc.overall_score
    , precision |-> sc.precision
    , recall |-> sc.recall
    , f1_score |-> sc.f1_score
    , stats_accuracy |-> sc.stats_accuracy
    , true_positives |-> sc.true_positives
    , false_positives |-> sc.false_positives
    , false_negatives |-> sc.false_negatives ]

\* the updates save_evaluation_results passes to SessionStorage.update
EvaluationUpdates(gt, sc, now) == [evaluation |-> EvalData(gt, sc, now)]

\* no evaluation: evaluate_session has not returned one
NoEvaluationDict ==
    [ground_truth |-> NoGroundTruthFile, session_id |-> 0, score |-> NoScore]

\* the return of evaluate_session once both loads have returned:
\* evaluate_detections reads the detections and the stats of the session
EvaluationOf(gt, session) ==
    IF ~({"detections", "stats"} \subseteq DOMAIN session)
    THEN [raised |-> "KeyError", value |-> NoEvaluationDict]
    ELSE [raised |-> "",
          value |-> [ground_truth |-> gt, session_id |-> session["session_id"],
                     score |-> calculate_score(evaluate_detections(gt, session).result,
                                               gt)]]

\* evaluate_session(video_name, session_id), where session is what
\* SessionStorage.get has returned: the dict it returns, or the exception of
\* load_ground_truth, of load_session_results or of evaluate_detections
evaluate_session(gt_f, session, video_name) ==
    IF load_ground_truth(gt_f, video_name).raised # ""
    THEN [raised |-> load_ground_truth(gt_f, video_name).raised,
          value |-> NoEvaluationDict]
    ELSE IF load_session_results(session).raised # ""
    THEN [raised |-> load_session_results(session).raised, value |-> NoEvaluationDict]
    ELSE EvaluationOf(load_ground_truth(gt_f, video_name).value, session.data)

\* the dict run_evaluation returns from its except clauses
Failure(raised) ==
    [success |-> FALSE,
     error |-> IF raised = "FileNotFoundError" THEN "no_ground_truth"
               ELSE "evaluation_failed",
     score |-> NoScore]

\* the dict run_evaluation returns after the save
Success(sc) == [success |-> TRUE, error |-> "none", score |-> sc]

RunEvaluationIdle ==
    /\ gt_file = NoGroundTruthFile
    /\ re_pc = "idle"
    /\ re_evaluation = NoEvaluationDict
    /\ re_args = [video_name |-> "", session_id |-> 0]
    /\ re_outcome = NoEvaluation
    /\ re_before = NoFile
    /\ re_wrote = FALSE

\* results of the classifier that the run of a stored session has kept as
\* detections (line 111): a shot, a pass, and two that no scoring rule takes,
\* a dribble and a shot at the threshold of the shot rule
DetectedResults ==
    { ClassificationResult(ActionShooting, 90)
    , ClassificationResult(ActionPassing, 80)
    , ClassificationResult(ActionDribbling, 85)
    , ClassificationResult(ActionShooting, CONFIDENCE_THRESHOLD_SHOT) }

\* the entry of detected_actions for a clip that starts at frame f (lines
\* 119-125); at 10 frames per second start_frame / fps is f tenths
DetectedAction(f, res, session_id) ==
    [frame |-> f, timestamp |-> f, action |-> res.action,
     confidence |-> res.confidence, frame_image |-> <<session_id, f>>]

\* detected_actions of the runs that wrote the stored sessions: clips start at
\* distinct, increasing frames
DetectedLists(session_id) ==
    { s \in SeqsUpTo({DetectedAction(f, res, session_id) :
                          f \in SessionFrames, res \in DetectedResults},
                     MaxEvaluated) :
        \A i \in 1..(Len(s) - 1) : s[i].frame < s[i + 1].frame }

\* a detection of a stored session: the entry of detection_details for the
\* detection det that calculate_stats has returned
StoredDetection(det, session_id) ==
    [timestamp |-> det.timestamp, frame |-> det.frame,
     detected_action |-> det.action, confidence |-> det.confidence,
     classified_as |-> det.classified_as,
     frame_image |-> det.frame_image, session_id |-> session_id]

\* a session in the store for the detected_actions of its run, with the keys
\* and the values of session_data (lines 130-155 of
\* video_analysis_service.py): the stats and the dispositions are those of
\* calculate_stats, the session_id is the start of a second, the timestamp a
\* tick later
StoredSession(session_id, detected_actions) ==
    LET scored == calculate_stats(detected_actions, get_basketball_stats_mapping)
    IN  [session_id |-> session_id, timestamp |-> session_id * TicksPerSecond + 1,
         video_duration |-> 1200, total_detections |-> Len(scored.detections),
         classifier_used |-> "YOLO Ball Tracking", stats |-> scored.stats,
         detections |-> [i \in 1..Len(scored.detections) |->
                            StoredDetection(scored.detections[i], session_id)]]

\* a session whose line does not go into one read
LongSession == [StoredSession(1, <<>>) EXCEPT !["classifier_used"] = LongName]

\* a deployment with or without the ground truth file, and without
\* sessions file, with one stored session, or with a long session and
\* another after it
InputsRunEvaluation ==
    /\ \/ gt_file = NoGroundTruthFile
       \/ \E ed \in SeqsUpTo(ExpectedEvents, MaxEvaluated), es \in ExpectedStats :
              gt_file = [exists |-> TRUE, video_name |-> AuthoredVideo,
                         expected_detections |-> ed, expected_stats |-> es]
    /\ \/ sessions_file = NoFile
       \/ \E detected_actions \in DetectedLists(1) :
              sessions_file = FileOf(<<StoredSession(1, detected_actions)>>)
       \/ sessions_file = FileOf(<<LongSession, StoredSession(2, <<>>)>>)
    \* the requests of a threaded server overlap
    /\ ss_concurrent = TRUE
    /\ ss_pc = [c \in Callers |-> "idle"]
    /\ ss_sessions = [c \in Callers |-> <<>>]
    /\ ss_args = [c \in Callers |-> NoArgs]
    /\ ss_got = NoGet
    /\ ss_rewrite = NoRewrite
    /\ ss_created = <<>>
    /\ ss_ops = 0
    /\ re_pc = "idle"
    /\ re_evaluation = NoEvaluationDict
    /\ re_args = [video_name |-> "", session_id |-> 0]
    /\ re_outcome = NoEvaluation
    /\ re_before = NoFile
    /\ re_wrote = FALSE

\* run_evaluation returns
Returns(outcome) ==
    /\ re_pc' = "done"
    /\ re_outcome' = outcome

\* the call of SessionStorage that run_evaluation is in has returned or raised
Completed == ss_pc'[Evaluator] = "idle"

\* what run_evaluation does with the return of evaluate_session: it goes on
\* to the save, or returns the failure of its except clauses
EvaluateSessionReturns(ev) ==
    IF ev.raised # ""
    THEN Returns(Failure(ev.raised)) /\ UNCHANGED re_evaluation
    ELSE /\ re_pc' = "save"
         /\ re_evaluation' = ev.value
         /\ UNCHANGED re_outcome

\* after SessionStorage.update: the print of line 240, which raises when the
\* output cannot take it, and the return of run_evaluation (lines 348-356); or
\* the exception of update
SaveReturns(rewrite) ==
    IF rewrite.outcome = "raised" THEN Returns(Failure("JSONDecodeError"))
    ELSE \E printed \in BOOLEAN :
             Returns(IF printed THEN Success(re_evaluation.score)
                     ELSE Failure("UnicodeEncodeError"))

\* run_evaluation(video_name, session_id, silent=True) up to the return of
\* load_ground_truth (lines 320-327, 294, 42-48)
RunEvaluation(video_name, session_id) ==
    /\ re_pc = "idle"
    /\ re_args' = [video_name |-> video_name, session_id |-> session_id]
    /\ re_before' = sessions_file
    /\ IF load_ground_truth(gt_file, video_name).raised # ""
       THEN Returns(Failure(load_ground_truth(gt_file, video_name).raised))
       ELSE re_pc' = "load" /\ UNCHANGED re_outcome
    /\ UNCHANGED <<gt_file, re_evaluation, re_wrote>>
    /\ UNCHANGED ss_vars
    /\ UNCHANGED re_others

\* the os.path.exists of the SessionStorage.get of load_session_results
LoadSessionExists ==
    /\ re_pc = "load"
    /\ ss_pc[Evaluator] = "idle"
    /\ GetTests(Evaluator, re_args.session_id)
    /\ IF Completed
       THEN EvaluateSessionReturns(
                evaluate_session(gt_file, ss_got'.result, re_args.video_name))
       ELSE UNCHANGED <<re_pc, re_outcome, re_evaluation>>
    /\ UNCHANGED <<gt_file, re_args, re_before, re_wrote>>
    /\ GoesOn
    /\ UNCHANGED re_others

\* its open(SESSIONS_FILE, 'r')
LoadSessionOpen ==
    /\ re_pc = "load"
    /\ GetOpens(Evaluator)
    /\ UNCHANGED re_vars
    /\ GoesOn
    /\ UNCHANGED re_others

\* one read of its loop; when get returns or raises, evaluate_session goes
\* on to its return (lines 295-305)
LoadSessionRead ==
    /\ re_pc = "load"
    /\ GetReads(Evaluator)
    /\ IF Completed
       THEN EvaluateSessionReturns(
                evaluate_session(gt_file, ss_got'.result, re_args.video_name))
       ELSE UNCHANGED <<re_pc, re_outcome, re_evaluation>>
    /\ UNCHANGED <<gt_file, re_args, re_before, re_wrote>>
    /\ GoesOn
    /\ UNCHANGED re_others

\* save_evaluation_results up to the os.path.exists of SessionStorage.update
\* (lines 226-239)
SaveExists ==
    /\ re_pc = "save"
    /\ ss_pc[Evaluator] = "idle"
    /\ UpdateTests(Evaluator, re_evaluation.session_id,
                   EvaluationUpdates(re_evaluation.ground_truth, re_evaluation.score,
                                     clock))
    /\ IF Completed THEN SaveReturns(ss_rewrite') ELSE UNCHANGED <<re_pc, re_outcome>>
    /\ UNCHANGED <<gt_file, re_evaluation, re_args, re_before, re_wrote>>
    /\ GoesOn
    /\ UNCHANGED re_others

\* update's open(SESSIONS_FILE, 'r')
SaveOpenRead ==
    /\ re_pc = "save"
    /\ UpdateOpensToRead(Evaluator)
    /\ UNCHANGED re_vars
    /\ GoesOn
    /\ UNCHANGED re_others

\* one read of update's loop
SaveRead ==
    /\ re_pc = "save"
    /\ UpdateReads(Evaluator)
    /\ IF Completed THEN SaveReturns(ss_rewrite') ELSE UNCHANGED <<re_pc, re_outcome>>
    /\ UNCHANGED <<gt_file, re_evaluation, re_args, re_before, re_wrote>>
    /\ GoesOn
    /\ UNCHANGED re_others

\* update's open(SESSIONS_FILE, 'w')
SaveOpen ==
    /\ re_pc = "save"
    /\ UpdateOpensToWrite(Evaluator)
    /\ re_wrote' = TRUE
    /\ IF Completed THEN SaveReturns(ss_rewrite') ELSE UNCHANGED <<re_pc, re_outcome>>
    /\ UNCHANGED <<gt_file, re_evaluation, re_args, re_before>>
    /\ GoesOn
    /\ UNCHANGED re_others

\* one write of update's lines
SaveWrite ==
    /\ re_pc = "save"
    /\ UpdateWrites(Evaluator)
    /\ IF Completed THEN SaveReturns(ss_rewrite') ELSE UNCHANGED <<re_pc, re_outcome>>
    /\ UNCHANGED <<gt_file, re_evaluation, re_args, re_before, re_wrote>>
    /\ GoesOn
    /\ UNCHANGED re_others

\* the records other requests create while run_evaluation runs
OverlappingRecords ==
    {StoredSession(1, <<DetectedAction(104, ClassificationResult(ActionShooting, 90), 1)>>),
     StoredSession(2, <<>>)}

\* the updates a run_evaluation for session_id passes to SessionStorage.update
\* when it has loaded the ground truth gt_f and the session from the log, and
\* saves at the time now (lines 294-305 and 226-239).  There is none when one
\* of its loads has raised: that run_evaluation returns without a call of
\* update
UpdatesOfEvaluation(gt_f, log, session_id, now) ==
    LET ev == evaluate_session(gt_f, get(log, session_id), AuthoredVideo)
    IN  IF ev.raised # "" THEN {}
        ELSE {EvaluationUpdates(ev.value.ground_truth, ev.value.score, now)}

\* the updates of the other requests: those of a run_evaluation that has
\* loaded the session from the log as it was when this call started, and
\* saves a tick later
OverlappingUpdates(session_id) ==
    UpdatesOfEvaluation(gt_file, re_before, session_id, clock + 1)

\* another request may start a call of SessionStorage while run_evaluation
\* runs
Overlaps ==
    /\ re_pc \in {"load", "save"}
    /\ ss_ops < MaxOverlap

----------------------------------------------------------------------------
(* Specifications: one per component, the other components idle *)

Services == StoreIdle /\ PipelineIdle /\ RunEvaluationIdle

InitExtract ==
    InputsExtract /\ StatsIdle /\ EvalIdle /\ ClassifyIdle /\ FactoryIdle /\ Services

NextExtract == ReadFrame \/ EndOfSource \/ ClipLimitReached

SpecExtract == InitExtract /\ [][NextExtract]_vars

InitStats ==
    InputsStats /\ ExtractIdle /\ EvalIdle /\ ClassifyIdle /\ FactoryIdle /\ Services

NextStats == CalculateStats

SpecStats == InitStats /\ [][NextStats]_vars

InitEval ==
    InputsEval /\ ExtractIdle /\ StatsIdle /\ ClassifyIdle /\ FactoryIdle /\ Services

NextEval == EvaluateDetections \/ CalculateScore

SpecEval == InitEval /\ [][NextEval]_vars

InitClassify ==
    InputsClassify /\ ExtractIdle /\ StatsIdle /\ EvalIdle /\ FactoryIdle /\ Services

NextClassify ==
    \/ InitializeSucceeds \/ InitializeFails \/ ClassifyCall
    \/ DetectFrame \/ AnalyzeTrajectory \/ SampleFrames \/ Predict \/ StepRaises

SpecClassify == InitClassify /\ [][NextClassify]_vars

\* the classifiers, and the YOLO classifier on the clip of the example shot
InitTrajectory ==
    /\ InputsClassify \/ InputsTrajectory
    /\ ExtractIdle /\ StatsIdle /\ EvalIdle /\ FactoryIdle /\ Services

SpecTrajectory == InitTrajectory /\ [][NextClassify]_vars

OthersIdle == ExtractIdle /\ StatsIdle /\ EvalIdle /\ ClassifyIdle /\ Services

NextFactory ==
    \/ \E r \in Requests :
           \/ \E classifier_type \in RequestedIds : Call(r, classifier_type)
           \/ CallDefault(r)
           \/ CheckCached(r)
           \/ Construct(r)
           \/ Store(r)
           \/ CallInitialize(r)
           \/ FactoryInitialize(r)
           \/ Return(r)
    \/ \E name \in RequestedIds : Register(name)
    \/ \E name \in RequestedIds : SetDefault(name)
    \/ ClearCache

\* create calls one after the other
InitFactory == InputsFactory(FALSE) /\ OthersIdle

SpecFactory == InitFactory /\ [][NextFactory]_vars

\* create calls of concurrent requests
InitFactoryRace == InputsFactory(TRUE) /\ OthersIdle

SpecFactoryRace == InitFactoryRace /\ [][NextFactory]_vars

\* the session store on its own, under callers of create, get and update
InitStorage ==
    /\ InputsStorage /\ PipelineIdle /\ RunEvaluationIdle
    /\ ExtractIdle /\ StatsIdle /\ EvalIdle /\ ClassifyIdle /\ FactoryIdle

NextStorage ==
    \E w \in Writers :
        \/ \E session_data \in StoreRecords : CreateOpen(w, session_data)
        \/ CreateWrite(w)
        \/ \E session_id \in StoredIds : GetExists(w, session_id)
        \/ GetOpen(w)
        \/ GetRead(w)
        \/ \E session_id \in StoredIds, updates \in StoreUpdates :
               UpdateExists(w, session_id, updates)
        \/ UpdateOpenRead(w)
        \/ UpdateRead(w)
        \/ UpdateOpen(w)
        \/ UpdateWrite(w)

SpecStorage == InitStorage /\ [][NextStorage]_vars

\* a process that has imported the service factory and has not run
\* analyze_video yet
InputsPipeline ==
    /\ PipelineIdle
    /\ InputsFactory(FALSE) /\ fa_impl = "service"
    /\ ExtractIdle /\ StoreIdle

InitPipeline ==
    InputsPipeline /\ StatsIdle /\ EvalIdle /\ ClassifyIdle /\ RunEvaluationIdle

\* one run of analyze_video
NextPipeline ==
    \/ Tick
    \/ \E classifier_type \in PipelineClassifiers : AnalyzeVideo(classifier_type)
    \/ CreateClassifier
    \/ CreateClassifierStep
    \/ CheckReady
    \/ \E n \in 0..MaxPipelineFrames : ExtractClips(n)
    \/ ExtractClipsStep
    \/ NewSessionId
    \/ GetStatsMapping
    \/ \E res \in PipelineResults : ClassifyClip(res)
    \/ SaveSession

SpecPipeline == InitPipeline /\ [][NextPipeline]_vars

\* runs of analyze_video one after the other
NextPipelineRuns ==
    \/ NextPipeline
    \/ \E classifier_type \in PipelineClassifiers : AnalyzeVideoAgain(classifier_type)

SpecPipelineRuns == InitPipeline /\ [][NextPipelineRuns]_vars

\* one call of run_evaluation, and the calls of SessionStorage that other
\* requests make while it runs
InitRunEvaluation ==
    /\ InputsRunEvaluation /\ PipelineIdle
    /\ ExtractIdle /\ StatsIdle /\ EvalIdle /\ ClassifyIdle /\ FactoryIdle

NextRunEvaluation ==
    \/ \E video_name \in VideoNames, session_id \in StoredIds :
           RunEvaluation(video_name, session_id)
    \/ LoadSessionExists
    \/ LoadSessionOpen
    \/ LoadSessionRead
    \/ SaveExists
    \/ SaveOpenRead
    \/ SaveRead
    \/ SaveOpen
    \/ SaveWrite
    \/ \E w \in Writers :
           \/ \E session_data \in OverlappingRecords :
                  Overlaps /\ CreateOpen(w, session_data)
           \/ CreateWrite(w)
           \/ \E session_id \in StoredIds :
                  /\ Overlaps
                  /\ \E updates \in OverlappingUpdates(session_id) :
                         UpdateExists(w, session_id, updates)
           \/ UpdateOpenRead(w)
           \/ UpdateRead(w)
           \/ UpdateOpen(w)
           \/ UpdateWrite(w)

SpecRunEvaluation == InitRunEvaluation /\ [][NextRunEvaluation]_vars

----------------------------------------------------------------------------
(* Claims about clip extraction, checked under SpecExtract *)

ClipStarts == [k \in 1..Len(clips) |-> clips[k].start]

\* C1: with frames_per_clip >= 1 and stride >= 1, every emitted clip holds exactly
\* frames_per_clip consecutive frames, is tagged with the index of its first frame,
\* and the k-th clip (k = 0, 1, ...) starts at frame k * stride.
C1_ClipsAreStridedWindows ==
    (frames_per_clip >= 1 /\ stride >= 1) =>
        \A k \in 1..Len(clips) :
            /\ clips[k].start = (k - 1) * stride
            /\ Len(clips[k].frames) = frames_per_clip
            /\ \A i \in 1..Len(clips[k].frames) :
                   clips[k].frames[i] = clips[k].start + i - 1

\* an extraction that ended with three or more overlapping clips
C1_Witness ==
    /\ ex_pc = "done"
    /\ stride >= 1 /\ stride < frames_per_clip
    /\ Len(clips) >= 3

\* C2: with F = frames_per_clip >= 1 and S = stride >= 1, extraction of N frames
\* returns 0 clips when N < F and min(M, (N - F) div S + 1) clips otherwise; no
\* clip needs frames past the end of the source; 200 frames with F = 60, S = 30
\* give the clips starting at 0, 30, 60, 90, 120.
C2_ClipCount ==
    (ex_pc = "done" /\ frames_per_clip >= 1 /\ stride >= 1) =>
        /\ Len(clips) = IF total_frames < frames_per_clip THEN 0
                        ELSE Min(max_clips,
                                 (total_frames - frames_per_clip) \div stride + 1)
        /\ \A k \in 1..Len(clips) : clips[k].start + frames_per_clip <= total_frames
        /\ (total_frames = 200 /\ frames_per_clip = 60 /\ stride = 30 /\ max_clips >= 5)
              => ClipStarts = <<0, 30, 60, 90, 120>>

\* the windowing example has run to its end
C2_Witness ==
    /\ ex_pc = "done"
    /\ total_frames = 200 /\ frames_per_clip = 60 /\ stride = 30
    /\ Len(clips) = 5

\* C12: whenever fps <= 0 or frames_per_clip <= 0, extract_clips fails fast: it reads
\* no frame and it never returns a clip list as if the run had succeeded.
C12_FailsFastOnBadConfiguration ==
    (fps <= 0 \/ frames_per_clip <= 0) =>
        /\ frame_count = 0
        /\ ex_pc # "done"

\* extraction has returned for a stride of 0, frames_per_clip >= 1 and a source
\* of at least frames_per_clip frames
StrideZeroRun ==
    /\ ex_pc = "done"
    /\ stride = 0
    /\ frames_per_clip >= 1
    /\ total_frames >= frames_per_clip

\* C27, as stated: when the stride is 0 while frames_per_clip >= 1, extract_clips
\* emits exactly one clip for any source with at least frames_per_clip frames.
C27_ExactlyOneClip == StrideZeroRun => Len(clips) = 1

\* C27, amended: when the stride is 0 while frames_per_clip >= 1, extract_clips
\* emits exactly one clip for any source with at least frames_per_clip frames
\* provided MAX_CLIPS >= 1, and no clip when MAX_CLIPS <= 0; after the first
\* clip the buffer is not shortened and holds every frame read, so its length
\* never equals frames_per_clip again and no further clip is emitted.
C27_OneClipUnlessLimitZero ==
    /\ StrideZeroRun => Len(clips) = IF max_clips >= 1 THEN 1 ELSE 0
    /\ (stride = 0 /\ frames_per_clip >= 1) =>
           /\ Len(clips) <= 1
           /\ Len(frames_buffer) = frame_count
           /\ Len(clips) = 1 =>
                  /\ clips[1].start = 0
                  /\ Len(frames_buffer) >= frames_per_clip

\* a long source read to its end with a stride of 0: one clip, every frame
\* still in the buffer, the clip limit not reached
C27_Witness ==
    /\ StrideZeroRun
    /\ max_clips >= 2
    /\ total_frames >= frames_per_clip + 3
    /\ frame_count = total_frames
    /\ Len(clips) = 1
    /\ Len(frames_buffer) = total_frames

----------------------------------------------------------------------------
(* Claims about the stats scoring engine, checked under SpecStats *)

\* the rule's condition as the specification words it
KeywordHit(rule, d) ==
    LET keywords == keyword_getter(rule, basketball_actions)
    IN  \E k \in 1..Len(keywords) : Contains(keywords[k], Lower(d.action))

ShouldFire(rule, d) == KeywordHit(rule, d) /\ d.confidence > rule.confidence_threshold

\* C3: a rule fires for a detection exactly when one of its keywords is a substring
\* of the lower-cased label and the confidence is strictly above the rule's
\* threshold; a detection at the threshold gets neither the label nor the points.
C3_RuleFiresIffKeywordAndAbove ==
    st_pc = "done" =>
        \A r \in 1..Len(SCORING_RULES) :
            LET rule == SCORING_RULES[r]
            IN  /\ \A i \in 1..Len(detections) :
                       Contains(rule.label, detections[i].classified_as)
                           <=> ShouldFire(rule, detections[i])
                /\ stats[rule.stat_name] = rule.points_value *
                       Cardinality({i \in 1..Len(detections) :
                                        ShouldFire(rule, detections[i])})

\* scored: one detection exactly at a threshold of a rule whose keyword it carries,
\* and one above it
C3_Witness ==
    /\ st_pc = "done"
    /\ \E r \in 1..Len(SCORING_RULES), i, j \in 1..Len(detections) :
           LET rule == SCORING_RULES[r]
           IN  /\ KeywordHit(rule, detections[i])
               /\ detections[i].confidence = rule.confidence_threshold
               /\ ~Contains(rule.label, detections[i].classified_as)
               /\ KeywordHit(rule, detections[j])
               /\ detections[j].confidence > rule.confidence_threshold
               /\ stats[rule.stat_name] = rule.points_value

\* C4: the stats map of the scoring engine holds the five keys points, assists,
\* steals, blocks and rebounds, with steals and rebounds at 0.
C4_FiveStatKeys ==
    st_pc = "done" =>
        /\ {"points", "assists", "steals", "blocks", "rebounds"} \subseteq DOMAIN stats
        /\ stats["steals"] = 0
        /\ stats["rebounds"] = 0


\* C21: running calculate_stats a second time on the same detection list with
\* the same mapping returns the stats and the dispositions of the first run:
\* the counters start from 0 again and classified_as is overwritten.
C21_ScoringIdempotent ==
    st_calls >= 2 =>
        /\ stats = st_first.stats
        /\ detections = st_first.detections
        /\ \A i \in 1..Len(detections) :
               detections[i].classified_as = st_first.detections[i].classified_as

\* scored twice: a list with a detection that scored and carries two labels
C21_Witness ==
    /\ st_calls = 2
    /\ stats["points"] > 0
    /\ \E i \in 1..Len(detections) :
           /\ Contains(JoinSeparator, detections[i].classified_as)
           /\ "classified_as" \in DOMAIN st_first.detections[i]


\* the labels of the rules that fire for detection d, in rule order
FiredLabels(d) ==
    LET fired == SelectSeq([r \in 1..Len(SCORING_RULES) |-> r],
                           LAMBDA r : ShouldFire(SCORING_RULES[r], d))
    IN  [k \in 1..Len(fired) |-> SCORING_RULES[fired[k]].label]

\* labels written one after the other with ', ' between them
RECURSIVE CommaSeparated(_)
CommaSeparated(labels) ==
    IF Len(labels) = 1 THEN labels[1]
    ELSE labels[1] \o <<",", " ">> \o CommaSeparated(Tail(labels))

\* C24: after calculate_stats the disposition of each detection is the labels
\* of exactly the rules that fired for it, joined by ', ' in rule order (SHOT,
\* ASSIST, BLOCK), and it is 'IGNORED (below threshold or no match)' if and
\* only if no rule fired for the detection.
C24_DispositionListsFiredRules ==
    st_pc = "done" =>
        \A i \in 1..Len(detections) :
            LET fired == FiredLabels(detections[i])
            IN  /\ fired # <<>> =>
                       detections[i].classified_as = CommaSeparated(fired)
                /\ detections[i].classified_as = IgnoredDisposition <=> fired = <<>>

\* scored: one detection with two labels and one that no rule fired for
C24_Witness ==
    /\ st_pc = "done"
    /\ \E i, j \in 1..Len(detections) :
           /\ Len(FiredLabels(detections[i])) = 2
           /\ detections[i].classified_as = LabelShot \o <<",", " ">> \o LabelBlock
           /\ detections[j].classified_as = IgnoredDisposition

\* the detections whose disposition contains label
Labelled(label) ==
    {i \in 1..Len(detections) : Contains(label, detections[i].classified_as)}

\* the keywords of rule that occur in the lower-cased label of d
KeywordsPresent(rule, d) ==
    LET keywords == keyword_getter(rule, basketball_actions)
    IN  {k \in 1..Len(keywords) : Contains(keywords[k], Lower(d.action))}

\* C30: after calculate_stats points is 2 times the number of detections whose
\* disposition contains 'SHOT (+2 points)', assists the number of those with
\* 'ASSIST (+1)' and blocks the number of those with 'BLOCK (+1)': a rule adds
\* its value once per detection however many of its keywords the label holds.
C30_StatsCountLabels ==
    st_pc = "done" =>
        /\ stats["points"] = 2 * Cardinality(Labelled(LabelShot))
        /\ stats["assists"] = Cardinality(Labelled(LabelAssist))
        /\ stats["blocks"] = Cardinality(Labelled(LabelBlock))

\* scored: a detection whose label holds two keywords of the rule that fired
\* for it, counted once
C30_Witness ==
    /\ st_pc = "done"
    /\ \E r \in 1..Len(SCORING_RULES), i \in 1..Len(detections) :
           /\ Cardinality(KeywordsPresent(SCORING_RULES[r], detections[i])) >= 2
           /\ Labelled(SCORING_RULES[r].label) = {i}
           /\ stats[SCORING_RULES[r].stat_name] = SCORING_RULES[r].points_value


----------------------------------------------------------------------------
(* Claims about the evaluation harness, checked under SpecEval *)

Evaluated == ev_pc \in {"evaluated", "scored"}

IsIgnored(d) == d.classified_as = IgnoredDisposition

\* the false-positive entry a detection gives rise to
FalsePositiveOf(d) == [type |-> d.classified_as, timestamp |-> d.timestamp]

CountFalsePositives(d) ==
    Cardinality({k \in 1..Len(result.false_positives) :
                     result.false_positives[k] = FalsePositiveOf(d)})

\* C5: a matched detection is consumed: no detection is the match of two expected
\* events, so the true positives never outnumber the non-ignored detections.
C5_MatchedDetectionsConsumed ==
    Evaluated =>
        /\ \A a, b \in 1..Len(result.true_positives) :
               a # b => result.true_positives[a].actual_time
                            # result.true_positives[b].actual_time
        /\ Len(result.true_positives)
               <= Cardinality({i \in 1..Len(session_results.detections) :
                                   ~IsIgnored(session_results.detections[i])})

\* C6: every detection that no match consumed and that is not IGNORED is one false
\* positive, exactly; an IGNORED detection is neither a false nor a true positive.
C6_FalsePositives ==
    Evaluated =>
        LET dets == session_results.detections
        IN  /\ \A i \in 1..Len(dets) :
                   /\ (i \notin matched_indices /\ ~IsIgnored(dets[i]))
                          => CountFalsePositives(dets[i]) = 1
                   /\ IsIgnored(dets[i]) =>
                          /\ CountFalsePositives(dets[i]) = 0
                          /\ i \notin matched_indices
                          /\ \A k \in 1..Len(result.true_positives) :
                                 result.true_positives[k].actual_time # dets[i].timestamp
            /\ Len(result.false_positives)
                   = Cardinality({i \in 1..Len(dets) :
                                      i \notin matched_indices /\ ~IsIgnored(dets[i])})

\* evaluated: an IGNORED detection beside a scored one that nothing matched
C6_Witness ==
    /\ Evaluated
    /\ \E i, j \in 1..Len(session_results.detections) :
           /\ IsIgnored(session_results.detections[i])
           /\ ~IsIgnored(session_results.detections[j])
           /\ j \notin matched_indices
    /\ Len(result.false_positives) = 1

\* the evaluation round trip: one shot expected at 10.0 +/- 1.0 and 2 points, a
\* session with one 'SHOT (+2 points)' detection at 10.4 and 2 points
RoundTripExample ==
    /\ ground_truth.expected_detections
           = <<[type |-> <<"s","h","o","t">>, timestamp |-> 100, tolerance |-> 10]>>
    /\ ground_truth.expected_stats = [s \in {"points"} |-> 2]
    /\ session_results.detections = <<SessionDetection(104, LabelShot)>>

\* v is n / d to the nearest whole number, d being positive
IsNearest(v, n, d) == 2 * Abs(v * d - n) <= d

\* C7: precision = TP/(TP+FP), recall = TP/(TP+FN), f1 = 2pr/(p+r), each 0 on a zero
\* denominator; stats_accuracy = 100 correct/expected; avg_time_error the mean error
\* of the true positives (0 if none); timing_score = max(0, 100 - 20 avg);
\* overall = 50 f1 + 0.3 stats_accuracy + 0.2 timing_score; the round trip example
\* scores TP 1, FP 0, FN 0, precision = recall = f1 = 100, stats_accuracy 100,
\* timing_score 92 and overall 98.4.  Fields are in hundredths, each the formula
\* to the nearest hundredth (either one when the formula is half way); f1 is stated
\* in its closed form 2 TP / (2 TP + FP + FN) and the overall score over one
\* denominator.
C7_ScoreFormulas ==
    ev_pc = "scored" =>
        LET tp == Len(result.true_positives)
            fp == Len(result.false_positives)
            fn == Len(result.false_negatives)
            t == Cardinality(DOMAIN ground_truth.expected_stats)
            c == Cardinality(DOMAIN result.stats_correct)
            e == SumTimeErrors(result.true_positives)
            \* f1 = f1n / f1d, stats_accuracy = san / sad, timing_score = tsn / tsd
            f1n == IF tp = 0 THEN 0 ELSE 2 * tp
            f1d == IF tp = 0 THEN 1 ELSE 2 * tp + fp + fn
            san == IF t = 0 THEN 0 ELSE 100 * c
            sad == IF t = 0 THEN 1 ELSE t
            tsn == IF tp = 0 THEN 100 ELSE IF 2 * e >= 100 * tp THEN 0
                   ELSE 100 * tp - 2 * e
            tsd == IF tp = 0 THEN 1 ELSE tp
        IN  /\ score.true_positives = tp
            /\ score.false_positives = fp
            /\ score.false_negatives = fn
            /\ IF tp + fp = 0 THEN score.precision = 0
               ELSE IsNearest(score.precision, 10000 * tp, tp + fp)
            /\ IF tp + fn = 0 THEN score.recall = 0
               ELSE IsNearest(score.recall, 10000 * tp, tp + fn)
            /\ IsNearest(score.f1_score, 10000 * f1n, f1d)
            /\ IsNearest(score.stats_accuracy, 100 * san, sad)
            /\ IF tp = 0 THEN score.avg_time_error_seconds = 0
               ELSE IsNearest(score.avg_time_error_seconds, 10 * e, tp)
            /\ IsNearest(score.timing_accuracy, 100 * tsn, tsd)
            /\ IsNearest(score.overall_score,
                         5000 * f1n * sad * tsd + 30 * san * f1d * tsd
                             + 20 * tsn * f1d * sad,
                         f1d * sad * tsd)
            /\ RoundTripExample =>
                   score = [overall_score |-> 9840, precision |-> 10000,
                            recall |-> 10000, f1_score |-> 10000,
                            stats_accuracy |-> 10000, timing_accuracy |-> 9200,
                            avg_time_error_seconds |-> 40, true_positives |-> 1,
                            false_positives |-> 0, false_negatives |-> 0]

\* the four shots have been scored: the mean time error of 0.175 is reported
\* as the hundredth the float of the program rounds to
C7_WitnessAverageTie ==
    /\ ev_pc = "scored"
    /\ ground_truth = AverageTieGroundTruth
    /\ Len(result.true_positives) = 4
    /\ SumTimeErrors(result.true_positives) = 7
    /\ score.avg_time_error_seconds = 17

\* the round trip example has been scored
C7_Witness ==
    /\ ev_pc = "scored"
    /\ RoundTripExample
    /\ score.overall_score = 9840

----------------------------------------------------------------------------
(* Claims about classify, checked under SpecClassify *)

ErrorSentinel == ClassificationResult(ActionError, 0)

\* C8: classify never raises to its caller, and a call in which an internal step
\* failed returns the sentinel result: action "error" with confidence 0, never a
\* result with a confidence above 0.
C8_ClassifyNeverRaises ==
    /\ cl_pc # "raised"
    /\ (cl_pc = "returned" /\ cl_failed) =>
           /\ cl_result = ErrorSentinel
           /\ ~(cl_result.confidence > 0)

\* the detector raised on a later frame of a clip, after positions were collected
C8_Witness ==
    /\ cl_kind = "yolo"
    /\ cl_pc = "returned"
    /\ cl_failed
    /\ Len(cl_positions) >= 3
    /\ cl_result = ErrorSentinel

\* a trajectory analysis has returned its result for at least 3 valid positions
TrajectoryAnalysed ==
    /\ cl_kind = "yolo"
    /\ cl_pc = "returned"
    /\ is_ready
    /\ ~cl_failed
    /\ Len(ValidPositions(cl_positions)) >= 3

\* the result of the first rule, in the order shooting, dribbling, passing,
\* catching, whose complete condition holds, and playing at 0.5 when none does
FirstMatchingRule(positions, pow) ==
    LET valid == ValidPositions(positions)
        n == Len(valid)
        xs == [i \in 1..n |-> valid[i][1]]
        ys == [i \in 1..n |-> valid[i][2]]
        changes == DirectionChanges(Diff(ys))
        mid == ys[(n \div 2) + 1]
        shooting == DyBelowThreshold(ys) /\ n >= 6 /\ mid < ys[1] /\ mid < ys[n]
        dribbling == changes >= 2 /\ AvgYVelAboveThreshold(ys)
        passing == AvgXVelAboveYVel(xs, ys) /\ MovementAboveThreshold(xs, ys, pow)
        catching == MovementBelowThreshold(xs, ys, pow) /\ n >= 6
    IN  IF shooting THEN ActionShooting
        ELSE IF dribbling THEN ActionDribbling
        ELSE IF passing THEN ActionPassing
        ELSE IF catching THEN ActionCatching
        ELSE ActionPlaying

\* C22: for at least 3 valid positions trajectory analysis returns the result
\* of the first rule, in the order shooting, dribbling, passing, catching,
\* whose complete condition holds, and playing at 0.5 when none holds; the
\* label is never "unknown" and the confidence never 0.
C22_FirstMatchingRuleWins ==
    TrajectoryAnalysed =>
        /\ \E pow \in PowOutcomes :
               cl_result.action = FirstMatchingRule(cl_positions, pow)
        /\ cl_result.action # ActionUnknown
        /\ cl_result.confidence # 0
        /\ cl_result.action = ActionPlaying => cl_result.confidence = 50

\* the ball rose by more than a tenth over 6 positions without an arc, and the
\* analysis returned unknown with confidence 0
C22_UnknownReturned ==
    /\ TrajectoryAnalysed
    /\ Len(ValidPositions(cl_positions)) >= 6
    /\ cl_result = ClassificationResult(ActionUnknown, 0)
    /\ \A pow \in PowOutcomes :
           FirstMatchingRule(cl_positions, pow) # ActionShooting

\* the rise of the ball between the first and the last valid position
Rise(positions) ==
    LET valid == ValidPositions(positions)
    IN  valid[1][2] - valid[Len(valid)][2]

\* the float confidence of a shot: min(0.9, 0.5 + abs(dy) * 2)
FloatShootingConfidence(positions) ==
    LET valid == ValidPositions(positions)
    IN  shooting_confidence(FloatDelta([i \in 1..Len(valid) |-> valid[i][2]]))

\* C23: whenever trajectory analysis classifies a sequence as shooting, the
\* confidence is min(0.9, 0.5 + 2 |dy|), strictly above 0.7 and at most 0.9
\* (as floats: a rise that the floats put just above a tenth gives a confidence
\* just above 0.7, whose nearest hundredth is 0.70); the 7-point arc
\* y = 0.8, 0.6, 0.4, 0.25, 0.2, 0.3, 0.5 at x = 0.5 is classified as shooting
\* with confidence 0.9.
C23_ShootingConfidence ==
    /\ (TrajectoryAnalysed /\ cl_result.action = ActionShooting) =>
           /\ cl_result.confidence * GridUnit =
                  IF 50 * GridUnit + 200 * Rise(cl_positions) <= 90 * GridUnit
                  THEN 50 * GridUnit + 200 * Rise(cl_positions)
                  ELSE 90 * GridUnit
           /\ FloatLess(FloatOfRatio(7, 10), FloatShootingConfidence(cl_positions))
           /\ FloatLessEq(FloatShootingConfidence(cl_positions), FloatOfRatio(9, 10))
           /\ cl_result.confidence >= 70
           /\ cl_result.confidence <= 90
    /\ (TrajectoryAnalysed /\ cl_positions = ExampleArc) =>
           cl_result = ClassificationResult(ActionShooting, 90)

\* the example arc has been analysed
C23_Witness ==
    /\ TrajectoryAnalysed
    /\ cl_positions = ExampleArc
    /\ 10 * Rise(cl_positions) = 3 * GridUnit
    /\ cl_result = ClassificationResult(ActionShooting, 90)

\* a shot at the threshold: the ball rose from y = 0.8 to y = 0.7, or from
\* y = 0.3 to y = 0.2, which is more than 0.1 on the float32 coordinates
C23_WitnessAtThreshold ==
    /\ TrajectoryAnalysed
    /\ cl_positions \in BoundaryArcs
    /\ 10 * Rise(cl_positions) = GridUnit
    /\ cl_result = ClassificationResult(ActionShooting, 70)

\* a rise from y = 0.4 to y = 0.3, which is less than 0.1 on the float32
\* coordinates, is not a shot
C23_WitnessNotBelowThreshold ==
    /\ TrajectoryAnalysed
    /\ cl_positions \in BoundaryArcs
    /\ 10 * Rise(cl_positions) = GridUnit
    /\ cl_result.action = ActionDribbling

\* a shot below the cap: the ball rose by an eighth
C23_WitnessBelowCap ==
    /\ TrajectoryAnalysed
    /\ cl_result = ClassificationResult(ActionShooting, 75)
    /\ 8 * Rise(cl_positions) = GridUnit

----------------------------------------------------------------------------
(* Claims about the classifier factories, checked under SpecFactory (calls   *)
(* one after the other) and SpecFactoryRace (concurrent requests)            *)

\* C9, as stated: after any sequence of create calls without clear_cache, for
\* each identifier the constructor has been invoked at most once and every create
\* call that returned an instance returned the same instance.
C9_ConstructedAtMostOnce ==
    ~fa_cleared =>
        /\ \A k \in CacheKeys : fa_constructed[k] <= 1
        /\ \A k \in RequestedIds : Cardinality(fa_returned[k]) <= 1

\* C9, amended: after any sequence of create calls without clear_cache, for each
\* identifier at most one instance is ever cached and every create call that returned an instance returned
\* that cached instance; the constructor is invoked only by a call that finds
\* nothing cached: at most once where the instance is cached whatever initialize
\* returns (video_analysis_service, analyze), and at most once more than the number
\* of failed initializations in base.ClassifierFactory, which raises without
\* caching when initialize fails.
C9_OneCachedInstance ==
    ~fa_cleared =>
        /\ \A k \in CacheKeys :
               /\ Cardinality(fa_stored[k]) <= 1
               /\ fa_stored[k] \subseteq {fa_instances[k]}
               /\ fa_constructed[k]
                      <= 1 + (IF fa_impl = "registry" THEN fa_init_failed[k] ELSE 0)
               /\ (fa_impl = "registry" /\ Cached(k)) =>
                      fa_constructed[k] = 1 + fa_init_failed[k]
        /\ \A k \in RequestedIds :
               /\ Cardinality(fa_returned[k]) <= 1
               /\ fa_returned[k] \subseteq {fa_instances[Slot(fa_impl, k)]}

\* base.ClassifierFactory: a create whose initialize failed, a second create that
\* constructed again and returned, and a third that returned the cached instance
C9_Witness ==
    /\ fa_impl = "registry"
    /\ ~fa_cleared
    /\ \A r \in Requests : fa_pc[r] = "idle"
    /\ fa_calls = 3
    /\ fa_init_failed["yolo"] = 1
    /\ fa_constructed["yolo"] = 2
    /\ fa_initialized["yolo"] = 2
    /\ fa_returned["yolo"] = {fa_instances["yolo"]}
    /\ Cached("yolo")

\* C10: when requests call create for the same identifier concurrently and nothing
\* is cached yet, initialize is performed at most once for that identifier and all
\* callers receive the same instance, in every interleaving.  Stated for the
\* identifiers none of whose initializations failed, so that a retry after a
\* failure does not count, and while the cache has not been cleared.
C10_SingleFlight ==
    ~fa_cleared =>
        /\ \A k \in CacheKeys :
               fa_init_failed[k] = 0 => fa_initialized[k] <= 1
        /\ \A k \in RequestedIds :
               fa_init_failed[Slot(fa_impl, k)] = 0 =>
                   Cardinality(fa_returned[k]) <= 1

\* C11: a request for an identifier that is not registered fails with the error that
\* enumerates the valid identifiers (ValueError); it never returns an instance of
\* another classifier, and it never constructs, initializes or caches anything.
C11_UnknownIdentifierFails ==
    \A r \in Requests :
        ~is_registered(fa_arg[r]) =>
            /\ fa_pc[r] \notin {"store", "initialize", "load", "return"}
            /\ fa_instance[r] = NoInstance
            /\ fa_outcome[r].kind \in {"none", "ValueError"}

----------------------------------------------------------------------------
(* Claims about analyze_video, checked under SpecPipeline (one run) and      *)
(* SpecPipelineRuns (runs one after the other)                               *)

\* create has handed the run its classifier
ClassifierObtained ==
    /\ pl_runs > 0
    /\ fa_calls > pl_create_no
    /\ fa_pc[PipelineRequest] = "idle"
    /\ fa_outcome[PipelineRequest].kind = "returned"

\* C13: analyze_video never goes on to extraction or classification with a
\* classifier that is not ready: a run whose classifier is not ready (its
\* initialization failed) ends in a RuntimeError with no clip extracted, no
\* clip classified and no record appended to the session store.
C13_NotReadyAborts ==
    /\ pl_pc \in {"extract", "extracting", "mapping", "classify", "returned"}
           => ClassifierObtained /\ Classifier \in fa_ready
    /\ pl_results # <<>> => Classifier \in fa_ready
    /\ (ClassifierObtained /\ Classifier \notin fa_ready) =>
           /\ pl_pc \in {"create", "raised"}
           /\ pl_pc = "raised" => pl_error = "RuntimeError"
           /\ ex_pc = "idle" /\ clips = <<>>
           /\ pl_results = <<>>
           /\ pl_built = <<>>
           /\ sessions_file = NoFile

\* a run has ended in the RuntimeError of the readiness test
C13_Witness ==
    /\ ClassifierObtained
    /\ Classifier \notin fa_ready
    /\ pl_pc = "raised"
    /\ pl_error = "RuntimeError"

\* the clips classified so far whose result is above the detection threshold
AboveThreshold ==
    SelectSeq([k \in 1..Len(pl_results) |-> k],
              LAMBDA k : pl_results[k].confidence > CONFIDENCE_THRESHOLD_DETECTION)

\* C14: a clip produces a detection if and only if the confidence of its
\* result is strictly above the detection threshold, so a clip whose
\* classification failed (the "error" result, confidence 0) produces none; the
\* run does not stop at a clip: it classifies every clip in order and, when it
\* has gone through them, returns with exactly one record appended to the
\* session store.
C14_DetectionIffAboveThreshold ==
    /\ pl_results # <<>> => pl_pc \in {"classify", "returned"}
    /\ pl_pc \in {"classify", "returned"} =>
           /\ Len(pl_results) = pl_i /\ pl_i <= Len(clips)
           /\ Len(pl_detected) = Len(AboveThreshold)
           /\ \A j \in 1..Len(pl_detected) :
                  LET k == AboveThreshold[j]
                  IN  /\ pl_detected[j].frame = clips[k].start
                      /\ pl_detected[j].action = pl_results[k].action
                      /\ pl_detected[j].confidence = pl_results[k].confidence
    /\ pl_error = "AttributeError" => pl_attribute = "get_basketball_stats_mapping"
    /\ Len(LogRecords) = (IF pl_pc = "returned" THEN 1 ELSE 0)
    /\ pl_pc = "returned" =>
           /\ Len(pl_results) = Len(clips)
           /\ LogRecords[1]["session_id"] = pl_session_id
           /\ LogRecords[1]["total_detections"] = Len(AboveThreshold)

\* a run has classified a clip above the detection threshold and has ended
\* there, in the AttributeError of line 118, with no detection
C14_RunEndsAtDetection ==
    /\ pl_pc = "raised"
    /\ pl_error = "AttributeError"
    /\ pl_attribute = "create_frame"
    /\ pl_results # <<>>
    /\ IsDetection(pl_results[Len(pl_results)])
    /\ pl_detected = <<>>

\* a run has gone through its clips without a detection and has ended in the
\* AttributeError of line 156, the sessions file not written
C14_RunEndsAtSave ==
    /\ pl_pc = "raised"
    /\ pl_error = "AttributeError"
    /\ pl_attribute = "create_session"
    /\ Len(pl_results) = Len(clips) /\ pl_results # <<>>
    /\ sessions_file = NoFile

C16_SameSecond ==
    /\ Len(pl_built) >= 2
    /\ pl_built[1]["session_id"] = pl_built[2]["session_id"]
    /\ pl_built[1]["timestamp"] # pl_built[2]["timestamp"]

----------------------------------------------------------------------------
(* Claims about run_evaluation, checked under SpecRunEvaluation *)

\* there is ground truth for the video
HasGroundTruth(video_name) == gt_file.exists /\ gt_file.video_name = video_name

\* the records of a list with the given id, in the order of the list
WithId(records, session_id) ==
    SelectSeq(records, LAMBDA data : data["session_id"] = session_id)

\* a record with the id was in the store when run_evaluation was called, or
\* has been created since
HasStoredRecord(session_id) ==
    \/ WithId(RecordsOf(re_before), session_id) # <<>>
    \/ WithId(ss_created, session_id) # <<>>

\* C15: when evaluation is requested for a video that has no ground truth, or
\* for a session id with no stored record, run_evaluation returns a failure
\* (success false, a not-found error) and no score, and it leaves the session
\* store as it is: it does not rewrite the log, so that it attaches no
\* evaluation to any record.
C15_MissingInputsAreNotFound ==
    (/\ re_pc = "done"
     /\ \/ ~HasGroundTruth(re_args.video_name)
        \/ ~HasStoredRecord(re_args.session_id))
    => /\ re_outcome.success = FALSE
       /\ re_outcome.error = "no_ground_truth"
       /\ re_outcome.score = NoScore
       /\ ~re_wrote

----------------------------------------------------------------------------
(* Claims about the session store, checked under SpecStorage *)

\* the records of a file with the given id, in file order
RecordsWithId(file, session_id) == WithId(RecordsOf(file), session_id)

\* what get is to return when these are the records with its id, in file
\* order: the first of them, or None
Earliest(with_id) == IF with_id = <<>> THEN NotFound ELSE Found(with_id[1])

\* result is what get is to return
ReturnsEarliest(returned, with_id) ==
    /\ returned.raised = ""
    /\ returned.found = (with_id # <<>>)
    /\ returned = Earliest(with_id)

\* C17: after any sequence of create and update calls, made one after the
\* other, get(id) returns the earliest-appended record whose session_id is
\* id, and None exactly when the log has no record with that id; get does not
\* change the log.
C17_GetReturnsEarliest ==
    ~ss_concurrent =>
        /\ TornPlaces(sessions_file) = {}
        /\ ss_got.after = ss_got.before
        /\ ReturnsEarliest(ss_got.result,
                           RecordsWithId(ss_got.before, ss_got.session_id))
        /\ \A session_id \in StoredIds :
               ReturnsEarliest(get(sessions_file, session_id),
                               RecordsWithId(sessions_file, session_id))

\* get has returned the first of two different records with its id
FirstOfTwo(data, with_id) ==
    /\ Len(with_id) = 2
    /\ with_id[1] # with_id[2]
    /\ data = with_id[1]

C17_Witness ==
    /\ ~ss_concurrent
    /\ ss_got.result.found
    /\ FirstOfTwo(ss_got.result.data, RecordsWithId(ss_got.before, ss_got.session_id))
    /\ "evaluation" \in DOMAIN ss_got.result.data

\* get has found its record in the second read of a log of more than
\* ChunkSize bytes
C17_WitnessSecondRead ==
    /\ ~ss_concurrent
    /\ ss_got.result.found
    /\ BytesSize(ss_got.before.bytes) > ChunkSize
    /\ Len(ss_got.scanned) = 2

\* get has found no record with its id in a log that has records
C17_WitnessNone ==
    /\ ~ss_concurrent
    /\ ss_got.caller # ""
    /\ ss_got.result = NotFound
    /\ ss_got.before.bytes # <<>>

\* with callers that overlap, get has raised on a log that had no torn line
\* when the call started and has none when it ends: between two reads of get
\* an update has rewritten the log
C17_RaisedWithoutTornLine ==
    /\ ss_got.result.raised = "JSONDecodeError"
    /\ TornPlaces(ss_got.before) = {}
    /\ TornPlaces(ss_got.after) = {}

\* the records appended after the last update had read the file to its end
\* and before it opened the file to rewrite it
AppendedAfter(read, before, texts) ==
    IF /\ Len(before) > Len(read)
       /\ SubSeq(before, 1, Len(read)) = read
       /\ Torn(texts) = {}
    THEN Records(SubSeq(texts, Len(read) + 1, Len(before)))
    ELSE <<>>

AppendedTo(read, before) == AppendedAfter(read, before, Texts(before))

AppendedInBetween == AppendedTo(LinesOf(ss_rewrite.read), LinesOf(ss_rewrite.before))

\* the lines of the log that are JSON are the lines of these sessions
HoldsExactly(file, sessions) ==
    SelectSeq(TextsOf(file), IsJson) = SessionLines(sessions)

\* the lines are JSON, one for every record created, in creation order, with
\* the keys the record was created with
KeepsAll(texts, created) ==
    /\ Torn(texts) = {}
    /\ Len(texts) = Len(created)
    /\ \A k \in 1..Len(created) :
           /\ Parsed(texts[k])["session_id"] = created[k]["session_id"]
           /\ \A key \in DOMAIN created[k] : key \in DOMAIN Parsed(texts[k])

\* when the callers are serialized, every record ever created is in the log,
\* in creation order, after any number of updates
SerializedKeepsAll ==
    (~ss_concurrent /\ \A c \in Callers : ss_pc[c] = "idle") =>
        KeepsAll(TextsOf(sessions_file), ss_created)

\* C18, as stated: update is not atomic: when another writer's create appends
\* a record after update has read the log and before update rewrites it, the
\* appended record is absent from the log after update completes, which holds
\* the records update had read; when the writers are serialized, every record
\* ever created is in the log after any number of updates.
C18_AppendedRecordAbsent ==
    /\ (/\ ss_rewrite.outcome = "written"
        /\ AppendedInBetween # <<>> \/ ~ss_rewrite.clean) =>
           /\ ss_concurrent
           /\ HoldsExactly(ss_rewrite.after, ss_rewrite.sessions)
    /\ SerializedKeepsAll

\* the last write of an update put its lines at the position the writes
\* before it had reached, over what was there, and left the other bytes of
\* the file as they were
LastWriteInPlace(rewrite, writes, offset, size) ==
    /\ TakeFront(DropFront(rewrite.after.bytes, offset), size) = writes[Len(writes)]
    /\ DropFront(rewrite.after.bytes, offset + size)
           = DropFront(rewrite.last.bytes, offset + size)
    /\ TakeFront(rewrite.after.bytes, offset)
           = Joined(TakeFront(rewrite.last.bytes, offset)
                        \o (IF offset > BytesSize(rewrite.last.bytes)
                            THEN <<Hole(offset - BytesSize(rewrite.last.bytes))>>
                            ELSE <<>>))

LastWriteOf(rewrite, writes) ==
    LastWriteInPlace(rewrite, writes,
                     BytesSize(Written(writes, Len(writes) - 1)),
                     BytesSize(writes[Len(writes)]))

\* C18, amended: update is not atomic.  It reads the log to its end, opens it
\* for writing, which empties it, and writes the records it has read from the
\* start of the file, in one write or, past ChunkSize bytes, in several, each
\* over what the file holds by then at the position update has reached.  When
\* nothing else has reached the file during these writes the log after update
\* completes is made of the records update had read, so that a record which
\* another writer's create appends after update has read the log to its end
\* and before update opens it for writing is absent.  When the writers are
\* serialized nothing comes in between and every record ever created is in
\* the log, in creation order, after any number of updates.
C18_UpdateLosesConcurrentAppend ==
    /\ (ss_rewrite.outcome = "written" /\ ss_rewrite.sessions # <<>>) =>
           LastWriteOf(ss_rewrite, Writes(ss_rewrite.sessions))
    /\ (ss_rewrite.outcome = "written" /\ ss_rewrite.clean) =>
           ss_rewrite.after.bytes = SessionLines(ss_rewrite.sessions)
    /\ AppendedInBetween # <<>> =>
           /\ ss_concurrent
           /\ ss_rewrite.outcome = "written"
           /\ (ss_rewrite.clean /\ ss_rewrite.scanned = RecordsOf(ss_rewrite.read)) =>
                  /\ HoldsExactly(ss_rewrite.after, ss_rewrite.sessions)
                  /\ Len(LinesOf(ss_rewrite.after)) < Len(LinesOf(ss_rewrite.before))
    /\ ~ss_concurrent =>
           /\ ss_rewrite.clean
           /\ ss_rewrite.outcome # "raised"
           /\ ss_rewrite.scanned = RecordsOf(ss_rewrite.read)
    /\ SerializedKeepsAll

\* an update has completed after another writer's create came in between its
\* last read and its rewrite, and the created record is not in the log
LostAppend(appended, texts) ==
    /\ Len(appended) = 1
    /\ Torn(texts) = {}
    /\ WithId(Records(texts), appended[1]["session_id"]) = <<>>
    /\ \E k \in 1..Len(ss_created) : ss_created[k] = appended[1]

C18_Witness ==
    /\ ss_concurrent
    /\ ss_rewrite.clean
    /\ sessions_file = ss_rewrite.after
    /\ LostAppend(AppendedInBetween, TextsOf(sessions_file))

\* two creates came in after an update had emptied the file, and the line of
\* the update has overwritten the first of them only: the second is in the log
C18_WitnessSurvivor ==
    /\ ss_concurrent
    /\ sessions_file = ss_rewrite.after
    /\ ~ss_rewrite.clean
    /\ Len(LinesOf(ss_rewrite.last)) = 2
    /\ Len(ss_rewrite.sessions) = 1
    /\ LinesOf(sessions_file)
           = <<<<Line(ss_rewrite.sessions[1])>>, LinesOf(ss_rewrite.last)[2]>>
    /\ TornPlaces(sessions_file) = {}

\* two creates came in after an update had emptied the file: the lines of the
\* update have overwritten the first and the front of the second, and get
\* raises at what is left of it
C18_WitnessTornLine ==
    /\ ss_concurrent
    /\ sessions_file = ss_rewrite.after
    /\ Len(LinesOf(ss_rewrite.last)) = 2
    /\ Len(ss_rewrite.sessions) = 1
    /\ TornPlaces(sessions_file) = {2}
    /\ \E session_id \in StoredIds :
           get(sessions_file, session_id) = Raised("JSONDecodeError")

\* an update has written its lines in two writes, and a create came in
\* between the two: its line lay where the second write went
LongerThanFirst(bytes, first) ==
    /\ BytesSize(bytes) > BytesSize(first)
    /\ TakeFront(bytes, BytesSize(first)) = first

WroteTwice(rewrite, writes) ==
    /\ Len(writes) = 2
    /\ LongerThanFirst(rewrite.last.bytes, writes[1])

C18_WitnessBetweenWrites ==
    /\ ss_concurrent
    /\ ss_rewrite.outcome = "written"
    /\ ~ss_rewrite.clean
    /\ WroteTwice(ss_rewrite, Writes(ss_rewrite.sessions))

\* serialized writers have created records and updated them, and all are there
C18_WitnessSerialized ==
    /\ ~ss_concurrent
    /\ Len(ss_created) = 2
    /\ ss_rewrite.sessions # <<>>
    /\ "evaluation" \in DOMAIN LogRecords[1]

----------------------------------------------------------------------------
(* Claims about initialize.                                                 *)

\* C19: initialize is idempotent: called on a classifier that is already
\* ready it returns success without loading the model again, and the
\* classifier is as ready afterwards as it was before.
C19_InitializeIdempotent ==
    (cl_init.called /\ cl_init.was_ready) =>
        /\ ~cl_init.loaded
        /\ cl_init.returned
        /\ is_ready

\* a second initialize on a ready classifier whose load raised has left the
\* classifier not ready
C19_ReadyLost == cl_init.called /\ cl_init.was_ready /\ ~is_ready

----------------------------------------------------------------------------
(* Claims about the mapping analyze_video asks its classifier for.          *)

\* the six categories of the action keyword mapping
MappingCategories ==
    {"shooting", "passing", "dribbling", "dunking", "blocking", "catching"}

\* C20: every classifier the factory can return provides the action keyword
\* mapping, so for every valid classifier identifier analyze_video obtains a
\* mapping with the six categories and goes on to the scoring: no run with a
\* ready classifier ends at the request for the mapping.
C20_MappingForEveryClassifier ==
    /\ ~(pl_error = "AttributeError" /\ pl_attribute = "get_basketball_stats_mapping")
    /\ pl_pc \in {"classify", "returned"} => DOMAIN pl_mapping = MappingCategories

\* a run for a valid identifier other than yolo, its classifier ready and the
\* clips extracted, has ended at the request for the mapping
C20_RunEndsAtMapping ==
    /\ pl_pc = "raised"
    /\ pl_error = "AttributeError"
    /\ pl_attribute = "get_basketball_stats_mapping"
    /\ pl_classifier_type \in RegisteredIds \ {"yolo"}
    /\ Ready(Classifier)
    /\ pl_results = <<>>
    /\ pl_built = <<>>

\* the run for yolo obtains the mapping and classifies its clips
C20_YoloRunClassifies ==
    /\ pl_classifier_type = "yolo"
    /\ DOMAIN pl_mapping = MappingCategories
    /\ pl_results # <<>>

----------------------------------------------------------------------------
(* Claims about match_detection and calculate_score, checked under SpecEval *)

\* the detections that qualify for an expected event: the disposition holds the
\* type name whatever the case, is not the IGNORED sentinel, and the time is
\* within the tolerance, the tolerance itself included
Candidates(expected, dets) ==
    {i \in 1..Len(dets) :
        /\ Contains(Lower(expected.type), Lower(dets[i].classified_as))
        /\ dets[i].classified_as # IgnoredDisposition
        /\ dets[i].timestamp - expected.timestamp <= expected.tolerance
        /\ expected.timestamp - dets[i].timestamp <= expected.tolerance}

FirstCandidate(expected, dets) ==
    CHOOSE i \in Candidates(expected, dets) :
        \A j \in Candidates(expected, dets) : i <= j

\* the expected events that have a candidate, in their order
EventsWithCandidate ==
    SelectSeq(ground_truth.expected_detections,
              LAMBDA e : Candidates(e, session_results.detections) # {})

\* m, returned for the expected event, is the first candidate or no match
TakesFirstCandidate(expected, dets, m) ==
    /\ m.matched <=> Candidates(expected, dets) # {}
    /\ m.matched => m.detection = dets[FirstCandidate(expected, dets)]

\* C25: match_detection returns the first detection in list order whose
\* disposition contains the type name case-insensitively, is scored (not the
\* IGNORED sentinel) and lies within the tolerance of the expected time, a
\* difference equal to the tolerance included, even when a later candidate is
\* closer; it returns no match exactly when no detection qualifies.
C25_FirstFitMatch ==
    ev_pc = "evaluated" =>
        LET dets == session_results.detections
            events == ground_truth.expected_detections
        IN  /\ \A k \in 1..Len(events) :
                   TakesFirstCandidate(events[k], dets,
                                       match_detection(events[k], dets))
            /\ Len(result.true_positives) = Len(EventsWithCandidate)
            /\ Len(result.false_negatives) = Len(events) - Len(EventsWithCandidate)
            /\ \A k \in 1..Len(EventsWithCandidate) :
                   /\ result.true_positives[k].expected_time =
                          EventsWithCandidate[k].timestamp
                   /\ result.true_positives[k].actual_time =
                          dets[FirstCandidate(EventsWithCandidate[k], dets)].timestamp

\* evaluated: the first candidate was taken although the second is closer
C25_Witness ==
    /\ Evaluated
    /\ Len(ground_truth.expected_detections) = 1
    /\ Candidates(ground_truth.expected_detections[1], session_results.detections)
           = {1, 2}
    /\ result.true_positives[1].actual_time = session_results.detections[1].timestamp
    /\ result.true_positives[1].time_error > 1
    /\ session_results.detections[2].timestamp + 1 =
           ground_truth.expected_detections[1].timestamp

\* evaluated: a detection exactly at the tolerance was matched
C25_WitnessAtTolerance ==
    /\ Evaluated
    /\ Len(result.true_positives) = 1
    /\ Len(ground_truth.expected_detections) = 1
    /\ result.true_positives[1].time_error =
           ground_truth.expected_detections[1].tolerance

\* 0.3 * stats_accuracy + 20 in hundredths, stats_accuracy being the exact
\* share of the expected stats found correct (0 when none is expected)
StatsShareScore ==
    LET total_stats == Cardinality(DOMAIN ground_truth.expected_stats)
        correct_stats == Cardinality(DOMAIN result.stats_correct)
    IN  IF total_stats > 0
        THEN RoundDiv(100 * (30 * correct_stats + 20 * total_stats), total_stats)
        ELSE 2000

\* C29: when an evaluation has no true positives, calculate_score sets
\* avg_time_error to 0 and the timing score to 100, so overall_score is
\* 0.3 * stats_accuracy + 20 and at least 20; for every evaluation result
\* overall_score lies between 0 and 100.
C29_ScoreFloorWithoutMatches ==
    ev_pc = "scored" =>
        /\ score.overall_score >= 0
        /\ score.overall_score <= 10000
        /\ result.true_positives = <<>> =>
               /\ score.avg_time_error_seconds = 0
               /\ score.timing_accuracy = 10000
               /\ score.f1_score = 0
               /\ score.overall_score = StatsShareScore
               /\ score.overall_score >= 2000

\* every expected event missed and a stat wrong, yet the score is above 20
C29_Witness ==
    /\ ev_pc = "scored"
    /\ result.true_positives = <<>>
    /\ Len(result.false_negatives) = Len(ground_truth.expected_detections)
    /\ Len(result.false_negatives) >= 2
    /\ result.false_positives # <<>>
    /\ DOMAIN result.stats_errors # {}
    /\ score.overall_score > 2000

\* no expected events and no expected stats: the score is exactly 20
C29_WitnessNothingExpected ==
    /\ ev_pc = "scored"
    /\ ground_truth.expected_detections = <<>>
    /\ ground_truth.expected_stats = EmptyMap
    /\ session_results.detections # <<>>
    /\ score.overall_score = 2000

\* a perfect evaluation reaches 100
C29_WitnessFullScore ==
    /\ ev_pc = "scored"
    /\ Len(result.true_positives) >= 2
    /\ score.overall_score = 10000

----------------------------------------------------------------------------
(* Claims about SessionStorage.update, checked under SpecStorage *)

\* the places in a file of the records with the given id
PlacesIn(texts, session_id) ==
    {k \in 1..Len(texts) :
        IsJson(texts[k]) /\ Parsed(texts[k])["session_id"] = session_id}

PlacesOfId(file, session_id) == PlacesIn(TextsOf(file), session_id)

\* after holds the records of before, in their order, those at the named
\* places with the updates merged in and the others, and their lines, as they
\* were
ChangesNamedOnly(before, after, lines_before, lines_after, named, updates) ==
    /\ Len(after) = Len(before)
    /\ \A k \in 1..Len(before) :
           /\ after[k]["session_id"] = before[k]["session_id"]
           /\ k \notin named =>
                  /\ after[k] = before[k]
                  /\ lines_after[k] = lines_before[k]
           /\ k \in named =>
                  /\ DOMAIN after[k] = DOMAIN before[k] \cup DOMAIN updates
                  /\ \A key \in DOMAIN after[k] :
                         after[k][key] =
                             IF key \in DOMAIN updates THEN updates[key]
                             ELSE before[k][key]
    /\ named = {} => lines_after = lines_before

\* C26: with a single writer update(id, updates) keeps the number and the
\* order of the records, leaves every record with another session_id
\* unchanged, and changes the named record only by overwriting or adding the
\* keys of updates; when no record has the id the log after update equals the
\* log before.
C26_UpdateChangesNamedRecordOnly ==
    ~ss_concurrent =>
        /\ ss_rewrite.before = ss_rewrite.read
        /\ ss_rewrite.before = ss_rewrite.started
        /\ ChangesNamedOnly(RecordsOf(ss_rewrite.before), RecordsOf(ss_rewrite.after),
                            LinesOf(ss_rewrite.before), LinesOf(ss_rewrite.after),
                            PlacesOfId(ss_rewrite.before, ss_rewrite.session_id),
                            ss_rewrite.updates)
        /\ PlacesOfId(ss_rewrite.before, ss_rewrite.session_id) = {} =>
               ss_rewrite.after = ss_rewrite.before

\* a single writer has updated one of two records: a key overwritten, a key
\* added, the other record as it was
OneOfTwoUpdated(before, after, named) ==
    /\ Len(before) = 2
    /\ Cardinality(named) = 1
    /\ \E k \in named :
           /\ before[k]["total_detections"] = 1
           /\ after[k]["total_detections"] = 2
           /\ "evaluation" \notin DOMAIN before[k]
           /\ after[k]["evaluation"] = EvaluationOfOne

C26_Witness ==
    /\ ~ss_concurrent
    /\ sessions_file = ss_rewrite.after
    /\ OneOfTwoUpdated(RecordsOf(ss_rewrite.before), LogRecords,
                       PlacesOfId(ss_rewrite.before, ss_rewrite.session_id))

\* a single writer has updated an id that no record of a log of two has
C26_WitnessNoSuchId ==
    /\ ~ss_concurrent
    /\ ss_rewrite.session_id \in StoredIds
    /\ Len(LinesOf(ss_rewrite.before)) = 2
    /\ PlacesOfId(ss_rewrite.before, ss_rewrite.session_id) = {}
    /\ ss_rewrite.after = ss_rewrite.before

\* the places, among the records a call went through, of those with the id
PlacesScanned(scanned, session_id) ==
    {k \in 1..Len(scanned) : scanned[k]["session_id"] = session_id}

\* data is the record at the first of the places
IsFirstAmong(data, records, places) ==
    /\ places # {}
    /\ \E k \in places :
           /\ \A j \in places : k <= j
           /\ data = records[k]

\* the line at place k of these holds a record with the updates
HoldsUpdates(texts, k, updates) ==
    /\ k <= Len(texts)
    /\ IsJson(texts[k])
    /\ \A key \in DOMAIN updates :
           /\ key \in DOMAIN Parsed(texts[k])
           /\ Parsed(texts[k])[key] = updates[key]

\* the record of the first of these places, or None when there is none
EarliestIn(texts, places) ==
    IF places = {} THEN NotFound
    ELSE Found(Parsed(texts[CHOOSE k \in places : \A j \in places : k <= j]))

BothUpdated(read, after, session_id) ==
    /\ Torn(read) = {}
    /\ PlacesIn(read, session_id) = {1, 2}
    /\ \A k \in {1, 2} :
           /\ "evaluation" \notin DOMAIN Parsed(read[k])
           /\ "evaluation" \in DOMAIN Parsed(after[k])

FirstNotSecond(data, records) == data = records[1] /\ data # records[2]

====
